---- MODULE Spec2Model ----
(***************************************************************************)
(* GuildedChatExporter: the resumable raw export engine of                 *)
(* guilded_websocket_exporter.py (export_server_full,                      *)
(* export_channel_history, the page spool and the checkpoint store), the   *)
(* optional resources of a server, the DM listing (fetch_dm_channels,      *)
(* export_all_dms), and of guilded_to_discord_exporter.py the job over the *)
(* servers (main_discord, export_all_discord), the channel index           *)
(* (export_channels), the mark rendering (_process_text), slate_to_markdown*)
(* and convert_permissions.                                                *)
(*                                                                         *)
(* One export process runs at a time.  The disk (page artifacts, merged    *)
(* artifacts, checkpoint, temp files) survives a kill of the process; the  *)
(* process's memory does not.  A message record is represented by its id   *)
(* (a positive integer, larger = newer); None is 0.                        *)
(***************************************************************************)
EXTENDS Integers, Sequences, FiniteSets, TLC

\* ----------------------------------------------------------------- bounds
\* Largest channel history (records) of the modelled server.
MaxMsgs == 120
\* Process kills, failed requests and process starts per behaviour.
MaxKills == 1
MaxErrors == 1
MaxRuns == 3
\* Largest number of DM channels of the modelled user.
MaxDMs == 26

\* ------------------------------------------------------ program constants
\* Page threshold of the message loop: `if len(messages) < 50: break`.
PageSize == 50
\* Page threshold of the DM listing: `len(channels) < 25`.
DmPageSize == 25

None == 0

\* The server's channel listing, in listing order (ids are opaque).
ChannelIds == <<101, 102>>
ServerChannels == {ChannelIds[i] : i \in 1..Len(ChannelIds)}

\* History sizes tried for a channel: the page-boundary cases up to MaxMsgs.
Sizes ==
  {0, 1, PageSize, PageSize + 1, 2 * PageSize, MaxMsgs} \cap (0..MaxMsgs)

VARIABLES
  serverData,   \* channel id -> its records on the service, newest first
  pageFiles,    \* channel id -> (page -> records): channel_<id>_page_<n>.json
  pageTmp,      \* channel id -> (page -> temp file): ..._page_<n>.json.tmp
  msgFile,      \* channel id -> channel_<id>_messages.json
  ckptFile,     \* server_<id>_checkpoint.json
  ckptTmp,      \* server_<id>_checkpoint.json.tmp
  pc,           \* position of the export process ("idle": no process)
  checkpoint,   \* export_server_full: the checkpoint dict in memory
  idx,          \* export_server_full: index into the channel listing
  all_messages, \* export_channel_history: accumulated records
  before_id,    \* export_channel_history: cursor
  page,         \* export_channel_history: page counter
  existing_pages, \* export_channel_history: pages loaded from the spool
  messages,     \* export_channel_history: records of the last response
  loop_exit,    \* export_channel_history: which break ended the while loop
  save_ret,     \* _save_checkpoint: its call site
  cpage,        \* _merge_and_cleanup_pages: its page counter
  dmData,       \* the user's DM channels on the service, newest first
  dmlist,       \* fetch_dm_channels: accumulated channels
  cursor,       \* fetch_dm_channels: cursor
  dmIndexFile,  \* dms/dm_channels_index.json
  dmFiles,      \* DM channel id -> dms/dm_<id>_messages.json
  contentType,  \* channel id -> the channel's contentType on the service
  credential_ok, \* whether the service accepts the session token
  channelsFile, \* server_<id>_channels.json (raw mode)
  optFiles,     \* the optional artifacts on disk (user.json, ..._pinned.json)
  requested,    \* what this run has requested so far
  failed,       \* the requests of this run that failed
  report,       \* what this run has reported at its end
  xpc,          \* position of the translated-mode process
  xidx,         \* export_channels: position of its for loop
  channel_index, \* export_channels: channel id -> name (ids stand for names)
  indexFile,    \* messages/index.json (translated mode)
  channelJson,  \* channel id -> messages/c<id>/channel.json
  teams,        \* main_discord: the servers the job exports, in order
  team_pos,     \* main_discord: position of its for loop over the servers
  servers_done, \* servers whose export_all call has returned
  fetch_failed, \* servers whose channel-list fetch raised
  leaf,         \* _process_text: the leaf being rendered (text, marks)
  text,         \* _process_text: the text wrapped so far
  mark_pos,     \* _process_text: position of the for loop over the marks
  content,      \* slate_to_markdown: its argument
  markdown,     \* slate_to_markdown: the string it returned
  slate_pc,     \* slate_to_markdown: called, returned or raised
  guilded_perms, \* convert_permissions: its argument
  discord_perms, \* convert_permissions: the accumulator (set of bit positions)
  perm_pos,     \* convert_permissions: position of its two for loops
  page_delay,   \* GuildedToDiscordExporter: self.page_delay (milliseconds)
  raw_pc,       \* export_all_raw: its position
  raw_idx,      \* export_all_raw: position of its for loop over the channels
  raw_before_id, \* export_all_raw: cursor of its while loop
  raw_all_messages, \* export_all_raw: accumulated records
  raw_dir,      \* the files in <output_dir>/raw (translated exporter)
  sleeps,       \* durations of the suspensions export_all_raw has taken
  truncated,    \* channels whose loop a failed request ended after >= 1 pages
  last_error_run, \* the run (value of runs) of the latest failed request
  exported_at_start, \* channels done with a merged artifact when the run began
  written,      \* page indexes written by this call of export_channel_history
  cursors,      \* cursors requested by this call of export_channel_history
  kills,        \* kills so far
  errors,       \* failed requests so far
  runs          \* process starts so far

disk == <<pageFiles, pageTmp, msgFile, ckptFile, ckptTmp>>
\* The locals of export_channel_history.
hist == <<all_messages, before_id, page, existing_pages, messages, loop_exit>>
memory == <<pc, checkpoint, idx, hist, save_ret, cpage>>
\* What has happened so far (not program state).
past == <<truncated, last_error_run, exported_at_start, written>>
\* The optional resources of a server and what a run did about them.
optVars == <<optFiles, requested, failed, report>>
dmVars == <<dmData, dmlist, cursor, dmIndexFile, dmFiles>>
\* The state of guilded_to_discord_exporter.py (translated mode).
jobVars == <<teams, team_pos, servers_done, fetch_failed>>
chanVars == <<xpc, xidx, channel_index, indexFile, channelJson, jobVars>>
slateVars == <<content, markdown, slate_pc>>
textVars == <<leaf, text, mark_pos, slateVars>>
permVars == <<guilded_perms, discord_perms, perm_pos>>
\* The state of export_all_raw (raw format of the translated exporter).
rawFormatVars == <<page_delay, raw_pc, raw_idx, raw_before_id, raw_all_messages,
                   raw_dir, sleeps>>
translator == <<chanVars, textVars, permVars>>
\* What no step of the raw server export changes.
outside == <<translator, dmVars, serverData, contentType, credential_ok,
             rawFormatVars>>
vars == <<dmData, dmlist, cursor, dmIndexFile, dmFiles, serverData,
          contentType, credential_ok, page_delay, raw_pc, raw_idx, raw_before_id,
          raw_all_messages, raw_dir, sleeps, channelsFile, optFiles, requested, failed, report, xpc, xidx, channel_index, indexFile,
          channelJson, teams, team_pos, servers_done, fetch_failed, leaf, text, content, markdown, slate_pc, mark_pos, guilded_perms, discord_perms,
          perm_pos, pageFiles, pageTmp, msgFile, ckptFile, ckptTmp, pc,
          checkpoint, idx, all_messages, before_id, page, existing_pages,
          messages, loop_exit, save_ret, cpage, truncated, last_error_run,
          exported_at_start, written, cursors, kills, errors, runs>>

\* ---------------------------------------------------------------- helpers
Min(a, b) == IF a < b THEN a ELSE b

Last(s) == s[Len(s)]

\* A function without / with one more key (a directory entry, a dict key).
Without(f, k) == [j \in DOMAIN f \ {k} |-> f[j]]
With(f, k, v) == [j \in DOMAIN f \cup {k} |-> IF j = k THEN v ELSE f[j]]

\* Files: absent, partially written (not parseable), or complete.
\* `empty` is the content of no content, of the file's own shape.
Absent(empty) == [st |-> "absent", data |-> empty]
Partial(empty) == [st |-> "partial", data |-> empty]
File(d) == [st |-> "complete", data |-> d]

NoMessages == [messages |-> <<>>, total_messages |-> 0]
NoIndex == [channels |-> <<>>, total_channels |-> 0]

\* The records of a history of n messages, newest first.
History(n) == [i \in 1..n |-> n - i + 1]

\* GET channels/<id>/messages?beforeId=<before>: at most PageSize records
\* strictly older than the cursor (all newest ones without a cursor).
FetchPage(data, before) ==
  LET older == IF before = None THEN data
               ELSE SelectSeq(data, LAMBDA m : m < before)
  IN SubSeq(older, 1, Min(PageSize, Len(older)))

\* The channel the for loop of export_server_full is at.
channel_id == ChannelIds[idx]

\* The checkpoint export_server_full creates when none is loaded (the fields
\* version, server_id, server_name, export_format and created_at never change).
EmptyCheckpoint == [channels |-> <<>>]

\* An in_progress entry that counts the pages before this one.
InProgressEntryPreviousPage(p, n, last) ==
  [status |-> "in_progress", pages_fetched |-> p - 1, messages_exported |-> n,
   last_message_id |-> last]

\* checkpoint["channels"][channel_id] as export_channel_history writes it.
InProgressEntry(p, n, last) ==
  [status |-> "in_progress", pages_fetched |-> p, messages_exported |-> n,
   last_message_id |-> last]

\* A done entry that loses the message count.
DoneEntryWithoutCount(n) == [status |-> "done", messages_exported |-> 0]

\* checkpoint["channels"][channel_id] as export_server_full writes it.
DoneEntry(n) == [status |-> "done", messages_exported |-> n]

\* checkpoint.get("channels", {}).get(channel_id, {}).get("status")
ChannelStatus(ck, c) ==
  IF c \in DOMAIN ck.channels THEN ck.channels[c].status ELSE "none"

\* -------------------------------------------------- the channel listing
\* contentType values tried for a channel ("whiteboard" stands for a type
\* that CHANNEL_TYPE_MAP does not list).
ContentTypes == {"chat", "voice", "docs", "scheduling", "whiteboard"}

\* The types of the listed channels where the raw export is modelled.
ListedTypes ==
  [c \in ServerChannels |-> IF c = ChannelIds[1] THEN "chat" ELSE "scheduling"]

\* GET teams/<id>/channels: the channel records, in listing order.
Listing(types) ==
  [i \in 1..Len(ChannelIds) |->
     [id |-> ChannelIds[i], contentType |-> types[ChannelIds[i]]]]

NoListing == <<>>

\* `page_delay: float = None` and an unset environment variable.
Unset == -1

\* `float(os.getenv("GUILDED_EXPORT_DELAY_SECONDS", "0.5"))` with the variable
\* unset, in milliseconds.
DefaultDelay == 500

\* __init__: the parameter, else the environment variable, else the default.
PageDelay(arg, env) ==
  IF arg # Unset THEN arg
  ELSE IF env # Unset THEN env ELSE DefaultDelay

\* GuildedToDiscordExporter constructed without page_delay and with the
\* environment variable unset; export_all_raw has not run.
RawFormatIdle ==
  /\ page_delay = PageDelay(Unset, Unset)
  /\ raw_pc = "idle"
  /\ raw_idx = 1
  /\ raw_before_id = None
  /\ raw_all_messages = <<>>
  /\ raw_dir = {}
  /\ sleeps = <<>>

\* The translated-mode job before main_discord has run.
JobIdle ==
  /\ xpc = "idle"
  /\ xidx = 1
  /\ channel_index = <<>>
  /\ indexFile = Absent(<<>>)
  /\ channelJson = <<>>
  /\ teams = <<>>
  /\ team_pos = 1
  /\ servers_done = {}
  /\ fetch_failed = {}

\* `{}`
EmptyDict == <<>>

\* No call of slate_to_markdown yet.
SlateIdle ==
  /\ content = EmptyDict
  /\ markdown = ""
  /\ slate_pc = "idle"

\* The translated-mode exporter before any of its functions has run.
TranslatorIdle ==
  /\ JobIdle
  /\ leaf = [text |-> "", marks |-> <<>>]
  /\ text = ""
  /\ mark_pos = 0
  /\ SlateIdle
  /\ guilded_perms = [is_dict |-> FALSE, categories |-> <<>>]
  /\ discord_perms = {}
  /\ perm_pos = <<0, 0>>

\* The raw exporter before any run, on an empty output directory.
RawIdle ==
  /\ pageFiles = [c \in ServerChannels |-> <<>>]
  /\ pageTmp = [c \in ServerChannels |-> <<>>]
  /\ msgFile = [c \in ServerChannels |-> Absent(NoMessages)]
  /\ ckptFile = Absent(EmptyCheckpoint)
  /\ ckptTmp = Absent(EmptyCheckpoint)
  /\ channelsFile = Absent(NoListing)
  /\ optFiles = {}
  /\ requested = {}
  /\ failed = {}
  /\ report = {}
  /\ pc = "idle"
  /\ checkpoint = EmptyCheckpoint
  /\ idx = 1
  /\ all_messages = <<>>
  /\ before_id = None
  /\ page = 0
  /\ existing_pages = 0
  /\ messages = <<>>
  /\ loop_exit = "none"
  /\ save_ret = "none"
  /\ cpage = 0
  /\ dmData = <<>>
  /\ dmlist = <<>>
  /\ cursor = None
  /\ dmIndexFile = Absent(NoIndex)
  /\ dmFiles = <<>>
  /\ truncated = {}
  /\ last_error_run = 0
  /\ exported_at_start = {}
  /\ written = <<>>
  /\ cursors = <<>>
  /\ kills = 0
  /\ errors = 0
  /\ runs = 0

Init ==
  /\ serverData \in [ServerChannels -> {History(n) : n \in Sizes}]
  /\ pageFiles = [c \in ServerChannels |-> <<>>]
  /\ pageTmp = [c \in ServerChannels |-> <<>>]
  /\ msgFile = [c \in ServerChannels |-> Absent(NoMessages)]
  /\ ckptFile = Absent(EmptyCheckpoint)
  /\ ckptTmp = Absent(EmptyCheckpoint)
  /\ pc = "idle"
  /\ checkpoint = EmptyCheckpoint
  /\ idx = 1
  /\ all_messages = <<>>
  /\ before_id = None
  /\ page = 0
  /\ existing_pages = 0
  /\ messages = <<>>
  /\ loop_exit = "none"
  /\ save_ret = "none"
  /\ cpage = 0
  /\ dmData = <<>>
  /\ dmlist = <<>>
  /\ cursor = None
  /\ dmIndexFile = Absent(NoIndex)
  /\ dmFiles = <<>>
  /\ contentType = ListedTypes
  /\ credential_ok = TRUE
  /\ RawFormatIdle
  /\ channelsFile = Absent(NoListing)
  /\ optFiles = {}
  /\ requested = {}
  /\ failed = {}
  /\ report = {}
  /\ TranslatorIdle
  /\ truncated = {}
  /\ last_error_run = 0
  /\ exported_at_start = {}
  /\ written = <<>>
  /\ cursors = <<>>
  /\ kills = 0
  /\ errors = 0
  /\ runs = 0

\* ------------------------------------------------- _load_existing_pages
\* Pages p+1, p+2, ... of the spool `files`, as long as each exists.
RECURSIVE LoadFrom(_, _, _, _)
LoadFrom(files, acc, p, last) ==
  IF (p + 1) \notin DOMAIN files
  THEN [all_messages |-> acc, page |-> p, last_message_id |-> last]
  ELSE LoadFrom(files, acc \o files[p + 1], p + 1,
                IF files[p + 1] # <<>> THEN Last(files[p + 1]) ELSE last)

\* A resume that loads the pages but forgets the cursor.
LoadWithoutCursor(files) ==
  [LoadFrom(files, <<>>, 0, None) EXCEPT !.last_message_id = None]

\* A resume that loads the pages but counts one page less.
LoadUndercount(files) ==
  [LoadFrom(files, <<>>, 0, None) EXCEPT !.page = IF @ > 0 THEN @ - 1 ELSE 0]

_load_existing_pages(files) == LoadFrom(files, <<>>, 0, None)

\* ---------------------------------------------------- decisions of the code
\* An end-of-data test that also stops at a full page.
ShortPageInclusive(msgs) == Len(msgs) <= PageSize

\* `if len(messages) < 50: break`
ShortPage(msgs) == Len(msgs) < PageSize

\* A cursor taken from the newest record of the page.
NextCursorNewest(msgs) == msgs[1]

\* `before_id = messages[-1].get("id")`
NextCursor(msgs) == Last(msgs)

\* A skip test with the existence test inverted.
SkipWhenArtifactMissing(ck, c) ==
  ChannelStatus(ck, c) = "done" /\ msgFile[c].st = "absent"

\* The skip test of export_server_full: done in the checkpoint and the merged
\* artifact exists (whatever it holds).
AlreadyExported(ck, c) ==
  ChannelStatus(ck, c) = "done" /\ msgFile[c].st # "absent"

\* A merged artifact whose total counts pages, not records.
MergedArtifactCountsPages(all) ==
  [messages |-> all, total_messages |-> (Len(all) + PageSize - 1) \div PageSize]

\* What _merge_and_cleanup_pages dumps into channel_<id>_messages.json.
MergedArtifact(all) == [messages |-> all, total_messages |-> Len(all)]

\* An error handler that requests again instead of leaving the loop.
RetryAfterRequestError == "request"

\* Where the `except Exception: break` of the message loop leads: to the
\* return of export_channel_history.
AfterRequestError == "hist_return"

\* export_channel_history run from a fresh start to its return with every
\* request answered: the records it returns.
RECURSIVE FetchLoop(_, _, _)
FetchLoop(data, acc, before) ==
  LET msgs == FetchPage(data, before)
  IN IF msgs = <<>> THEN acc
     ELSE IF ShortPage(msgs) THEN acc \o msgs
     ELSE FetchLoop(data, acc \o msgs, NextCursor(msgs))

UninterruptedHistory(data) == FetchLoop(data, <<>>, None)

\* The state of the process's memory when it starts.
FreshLocals ==
  /\ idx' = 1
  /\ all_messages' = <<>>
  /\ before_id' = None
  /\ page' = 0
  /\ existing_pages' = 0
  /\ messages' = <<>>
  /\ loop_exit' = "none"
  /\ save_ret' = "none"
  /\ cpage' = 0

\* ----------------------------------------------------------------- actions
\* A process start whose "me" request raises (bad credential): the caller
\* prints the error and the process exits; export_server_full is not called.
RawMeError ==
  /\ pc \in {"idle", "exited"}
  /\ ~credential_ok
  /\ runs < MaxRuns
  /\ runs' = runs + 1
  /\ pc' = "exited"
  /\ UNCHANGED <<outside, cursors, optVars, channelsFile, disk, checkpoint,
                 idx, hist, save_ret, cpage, past, kills, errors>>

\* A process start: the caller's "me" request answers, then
\* export_server_full up to the channel listing request; _load_checkpoint
\* reads the checkpoint if there is one.
StartRun ==
  /\ pc \in {"idle", "finished"}
  /\ credential_ok
  /\ runs < MaxRuns
  /\ runs' = runs + 1
  /\ checkpoint' = IF ckptFile.st = "complete" THEN ckptFile.data
                   ELSE EmptyCheckpoint
  /\ FreshLocals
  /\ exported_at_start' =
       {c \in ServerChannels :
          ChannelStatus(ckptFile.data, c) = "done" /\ msgFile[c].st # "absent"}
  /\ written' = <<>>
  /\ cursors' = <<>>
  /\ requested' = {}
  /\ failed' = {}
  /\ report' = {}
  /\ pc' = "fetch_user"
  /\ UNCHANGED <<outside, optFiles, channelsFile, disk, truncated,
                 last_error_run, kills, errors>>

\* One optional resource, in a try of its own: the request answers and the
\* response is written to the resource's file, if there is anything to write.
FetchOptional(at, resource, nonempty, next) ==
  /\ pc = at
  /\ requested' = requested \cup {resource}
  /\ optFiles' = IF nonempty THEN optFiles \cup {resource} ELSE optFiles
  /\ pc' = next
  /\ UNCHANGED <<outside, cursors, channelsFile, disk, checkpoint, hist, save_ret,
                 cpage, past, failed, report, kills, errors, runs>>

\* A failed optional request that ends the run: nothing more is fetched.
FetchOptionalErrorEndsRun(at, resource, next) ==
  /\ pc = at
  /\ errors < MaxErrors
  /\ errors' = errors + 1
  /\ requested' = requested \cup {resource}
  /\ failed' = failed \cup {resource}
  /\ pc' = "readme"
  /\ UNCHANGED <<outside, cursors, channelsFile, disk, checkpoint, hist, save_ret,
                 cpage, past, optFiles, report, kills, runs>>

\* One optional resource: the request (or the write) raises, the except
\* clause logs it and the function goes on.
FetchOptionalError(at, resource, next) ==
  /\ pc = at
  /\ errors < MaxErrors
  /\ errors' = errors + 1
  /\ requested' = requested \cup {resource}
  /\ failed' = failed \cup {resource}
  /\ pc' = next
  /\ UNCHANGED <<outside, cursors, channelsFile, disk, checkpoint, hist, save_ret,
                 cpage, past, optFiles, report, kills, runs>>

\* user.json
FetchUser ==
  /\ FetchOptional("fetch_user", <<"user", 0>>, TRUE, "fetch_info")
  /\ UNCHANGED idx

FetchUserError ==
  /\ FetchOptionalError("fetch_user", <<"user", 0>>, "fetch_info")
  /\ UNCHANGED idx

\* server_<id>_info.json
FetchInfo ==
  /\ FetchOptional("fetch_info", <<"info", 0>>, TRUE, "fetch_channels")
  /\ UNCHANGED idx

FetchInfoError ==
  /\ FetchOptionalError("fetch_info", <<"info", 0>>, "fetch_channels")
  /\ UNCHANGED idx

\* fetch_rest_api("teams/<id>/channels") answers; open(channels_path, 'w').
FetchChannels ==
  /\ pc = "fetch_channels"
  /\ channelsFile' = Partial(NoListing)
  /\ requested' = requested \cup {<<"channels", 0>>}
  /\ pc' = "channels_dump"
  /\ UNCHANGED <<outside, cursors, optFiles, failed, report, disk, checkpoint, idx, hist, save_ret, cpage, past,
                 kills, errors, runs>>

\* json.dump(channels_data, f) and close; the for loop starts.
ChannelsDump ==
  /\ pc = "channels_dump"
  /\ channelsFile' = File(Listing(contentType))
  /\ idx' = 1
  /\ pc' = "channel_top"
  /\ UNCHANGED <<outside, cursors, optVars, disk, checkpoint, hist, save_ret, cpage, past, kills,
                 errors, runs>>

\* The channel listing request fails: the whole channel block is left.
FetchChannelsError ==
  /\ pc = "fetch_channels"
  /\ errors < MaxErrors
  /\ errors' = errors + 1
  /\ last_error_run' = runs
  /\ requested' = requested \cup {<<"channels", 0>>}
  /\ failed' = failed \cup {<<"channels", 0>>}
  /\ pc' = "after_channels"
  /\ UNCHANGED <<outside, cursors, optFiles, report, channelsFile, disk, checkpoint, idx, hist, save_ret,
                 cpage, truncated, exported_at_start, kills, runs, written>>

\* The for loop is exhausted.
EndChannels ==
  /\ pc = "channel_top"
  /\ idx > Len(ChannelIds)
  /\ pc' = "after_channels"
  /\ UNCHANGED <<outside, cursors, optVars, channelsFile, disk, checkpoint, idx, hist, save_ret,
                 cpage, past, kills, errors, runs>>

\* `continue`: the channel is already exported.
SkipChannel ==
  /\ pc = "channel_top"
  /\ idx <= Len(ChannelIds)
  /\ AlreadyExported(checkpoint, channel_id)
  /\ idx' = idx + 1
  /\ UNCHANGED <<outside, cursors, optVars, channelsFile, disk, pc, checkpoint, hist, save_ret,
                 cpage, past, kills, errors, runs>>

\* export_channel_history is entered: existing pages are loaded.
BeginHistory ==
  /\ pc = "channel_top"
  /\ idx <= Len(ChannelIds)
  /\ ~AlreadyExported(checkpoint, channel_id)
  /\ LET ex == _load_existing_pages(pageFiles[channel_id])
     IN /\ existing_pages' = ex.page
        /\ all_messages' = IF ex.page > 0 THEN ex.all_messages ELSE <<>>
        /\ page' = IF ex.page > 0 THEN ex.page ELSE 0
        /\ before_id' = IF ex.page > 0 THEN ex.last_message_id ELSE None
  /\ messages' = <<>>
  /\ loop_exit' = "none"
  /\ written' = <<>>
  /\ cursors' = <<>>
  /\ requested' = requested \cup {<<"messages", channel_id>>}
  /\ pc' = "request"
  /\ UNCHANGED <<outside, optFiles, failed, report, channelsFile, disk, checkpoint, idx, save_ret, cpage,
                 truncated, last_error_run, exported_at_start, kills,
                 errors, runs>>

\* One GET of the message loop answers.
Request ==
  /\ pc = "request"
  /\ LET msgs == FetchPage(serverData[channel_id], before_id)
     IN /\ messages' = msgs
        /\ IF msgs = <<>>
           THEN /\ loop_exit' = "empty"
                /\ pc' = "hist_return"
                /\ UNCHANGED <<page, all_messages>>
           ELSE /\ page' = page + 1
                /\ all_messages' = all_messages \o msgs
                /\ pc' = "page_open"
                /\ UNCHANGED loop_exit
  /\ cursors' = Append(cursors, before_id)
  /\ UNCHANGED <<outside, optVars, channelsFile, disk, checkpoint, idx, before_id,
                 existing_pages, save_ret, cpage, past, kills, errors, runs>>

\* One GET of the message loop fails (transport or HTTP error).
RequestError ==
  /\ pc = "request"
  /\ errors < MaxErrors
  /\ errors' = errors + 1
  /\ last_error_run' = runs
  /\ truncated' = IF page >= 1 THEN truncated \cup {channel_id} ELSE truncated
  /\ loop_exit' = "error"
  /\ pc' = AfterRequestError
  /\ cursors' = Append(cursors, before_id)
  /\ UNCHANGED <<outside, optVars, channelsFile, disk, checkpoint, idx, all_messages,
                 before_id, page, existing_pages, messages, save_ret, cpage,
                 exported_at_start, kills, runs, written>>

\* A page write that opens the page artifact itself.
PageOpenInPlace ==
  /\ pc = "page_open"
  /\ pageFiles' = [pageFiles EXCEPT ![channel_id] = With(@, page, <<>>)]
  /\ pageTmp' = [pageTmp EXCEPT
                   ![channel_id] = With(@, page, Partial(<<>>))]
  /\ pc' = "page_dump"
  /\ UNCHANGED <<outside, cursors, optVars, channelsFile, msgFile, ckptFile, ckptTmp, checkpoint,
                 idx, hist, save_ret, cpage, past, kills, errors, runs>>

\* _save_page_file: open(tmp_path, 'w').
PageOpen ==
  /\ pc = "page_open"
  /\ pageTmp' = [pageTmp EXCEPT
                   ![channel_id] = With(@, page, Partial(<<>>))]
  /\ pc' = "page_dump"
  /\ UNCHANGED <<outside, cursors, optVars, channelsFile, pageFiles, msgFile, ckptFile, ckptTmp,
                 checkpoint, idx, hist, save_ret, cpage, past, kills, errors,
                 runs>>

\* _save_page_file: json.dump and close.
PageDump ==
  /\ pc = "page_dump"
  /\ pageTmp' = [pageTmp EXCEPT ![channel_id] = With(@, page, File(messages))]
  /\ pc' = "page_replace"
  /\ UNCHANGED <<outside, cursors, optVars, channelsFile, pageFiles, msgFile, ckptFile, ckptTmp,
                 checkpoint, idx, hist, save_ret, cpage, past, kills, errors,
                 runs>>

\* _save_page_file: os.replace; then the checkpoint entry is set in memory.
PageReplace ==
  /\ pc = "page_replace"
  /\ pageFiles' =
       [pageFiles EXCEPT
          ![channel_id] = With(@, page, pageTmp[channel_id][page].data)]
  /\ pageTmp' = [pageTmp EXCEPT ![channel_id] = Without(@, page)]
  /\ checkpoint' =
       [checkpoint EXCEPT
          !.channels = With(@, channel_id,
                            InProgressEntry(page, Len(all_messages),
                                            Last(messages)))]
  /\ written' = Append(written, page)
  /\ save_ret' = "loop"
  /\ pc' = "save_open"
  /\ UNCHANGED <<outside, cursors, optVars, channelsFile, msgFile, ckptFile, ckptTmp, idx, hist,
                 cpage, truncated, last_error_run, exported_at_start, kills,
                 errors, runs>>

\* A checkpoint save that opens the checkpoint file itself.
SaveOpenInPlace ==
  /\ pc = "save_open"
  /\ ckptFile' = Partial(EmptyCheckpoint)
  /\ ckptTmp' = Partial(EmptyCheckpoint)
  /\ pc' = "save_dump"
  /\ UNCHANGED <<outside, cursors, optVars, channelsFile, pageFiles, pageTmp, msgFile, checkpoint,
                 idx, hist, save_ret, cpage, past, kills, errors, runs>>

\* _save_checkpoint: open(tmp_path, 'w').
SaveOpen ==
  /\ pc = "save_open"
  /\ ckptTmp' = Partial(EmptyCheckpoint)
  /\ pc' = "save_dump"
  /\ UNCHANGED <<outside, cursors, optVars, channelsFile, pageFiles, pageTmp, msgFile, ckptFile,
                 checkpoint, idx, hist, save_ret, cpage, past, kills, errors,
                 runs>>

\* _save_checkpoint: json.dump and close.
SaveDump ==
  /\ pc = "save_dump"
  /\ ckptTmp' = File(checkpoint)
  /\ pc' = "save_replace"
  /\ UNCHANGED <<outside, cursors, optVars, channelsFile, pageFiles, pageTmp, msgFile, ckptFile,
                 checkpoint, idx, hist, save_ret, cpage, past, kills, errors,
                 runs>>

\* _save_checkpoint: os.replace, and the code after the call, up to the next
\* request, file operation or suspension.
SaveReplace ==
  /\ pc = "save_replace"
  /\ ckptFile' = ckptTmp
  /\ ckptTmp' = Absent(EmptyCheckpoint)
  /\ save_ret' = "none"
  /\ IF save_ret = "loop"
     THEN IF ShortPage(messages)
          THEN /\ loop_exit' = "short"
               /\ pc' = "hist_return"
               /\ UNCHANGED before_id
          ELSE /\ before_id' = NextCursor(messages)
               /\ pc' = "sleep"
               /\ UNCHANGED loop_exit
     ELSE /\ pc' = "pinned"
          /\ UNCHANGED <<before_id, loop_exit>>
  /\ UNCHANGED <<outside, cursors, optVars, channelsFile, pageFiles, pageTmp, msgFile,
                 checkpoint, idx, all_messages, page, existing_pages, messages,
                 cpage, past, kills, errors, runs>>

\* asyncio.sleep(self.page_delay) returns.
Sleep ==
  /\ pc = "sleep"
  /\ pc' = "request"
  /\ UNCHANGED <<outside, cursors, optVars, channelsFile, disk, checkpoint, idx, hist, save_ret,
                 cpage, past, kills, errors, runs>>

\* `if messages:` holds; _merge_and_cleanup_pages: open(messages_path, 'w').
MergeOpen ==
  /\ pc = "hist_return"
  /\ all_messages # <<>>
  /\ msgFile' = [msgFile EXCEPT ![channel_id] = Partial(NoMessages)]
  /\ pc' = "merge_dump"
  /\ UNCHANGED <<outside, cursors, optVars, channelsFile, pageFiles, pageTmp, ckptFile, ckptTmp,
                 checkpoint, idx, hist, save_ret, cpage, past, kills, errors,
                 runs>>

\* _merge_and_cleanup_pages: json.dump and close.
MergeDump ==
  /\ pc = "merge_dump"
  /\ msgFile' = [msgFile EXCEPT
                   ![channel_id] = File(MergedArtifact(all_messages))]
  /\ cpage' = 1
  /\ pc' = "cleanup"
  /\ UNCHANGED <<outside, cursors, optVars, channelsFile, pageFiles, pageTmp, ckptFile, ckptTmp,
                 checkpoint, idx, hist, save_ret, past, kills, errors, runs>>

\* _merge_and_cleanup_pages: page_path.unlink().
CleanupUnlink ==
  /\ pc = "cleanup"
  /\ cpage \in DOMAIN pageFiles[channel_id]
  /\ pageFiles' = [pageFiles EXCEPT ![channel_id] = Without(@, cpage)]
  /\ cpage' = cpage + 1
  /\ UNCHANGED <<outside, cursors, optVars, channelsFile, pageTmp, msgFile, ckptFile, ckptTmp,
                 pc, checkpoint, idx, hist, save_ret, past, kills, errors, runs>>

\* _merge_and_cleanup_pages returns at the first missing page; the channel is
\* marked done in memory.
CleanupEnd ==
  /\ pc = "cleanup"
  /\ cpage \notin DOMAIN pageFiles[channel_id]
  /\ checkpoint' =
       [checkpoint EXCEPT
          !.channels = With(@, channel_id, DoneEntry(Len(all_messages)))]
  /\ save_ret' = "done"
  /\ cpage' = 0
  /\ pc' = "save_open"
  /\ UNCHANGED <<outside, cursors, optVars, channelsFile, disk, idx, hist, past, kills, errors,
                 runs>>

\* `if messages:` fails: the channel is marked done with 0 messages.
MarkEmptyDone ==
  /\ pc = "hist_return"
  /\ all_messages = <<>>
  /\ checkpoint' =
       [checkpoint EXCEPT !.channels = With(@, channel_id, DoneEntry(0))]
  /\ save_ret' = "done"
  /\ pc' = "save_open"
  /\ UNCHANGED <<outside, cursors, optVars, channelsFile, disk, idx, hist, cpage, past, kills,
                 errors, runs>>

\* The channels with pinned messages and with threads on the service.
HasPinned(c) == c = ChannelIds[1]
HasThreads(c) == c = ChannelIds[1]

\* `if channel_type in ["chat", "stream", "voice"]`
SupportsThreads(channel_type) == channel_type \in {"chat", "stream", "voice"}

\* A pinned export that writes the file whatever the response lists.
PinnedUnconditional ==
  /\ FetchOptional("pinned", <<"pinned", channel_id>>, TRUE, "threads")
  /\ UNCHANGED idx

\* channel_<id>_pinned.json, written when the response lists any message.
Pinned ==
  /\ FetchOptional("pinned", <<"pinned", channel_id>>, HasPinned(channel_id),
                   "threads")
  /\ UNCHANGED idx

\* The pinned request raises or does not answer 200.
PinnedError ==
  /\ FetchOptionalError("pinned", <<"pinned", channel_id>>, "threads")
  /\ UNCHANGED idx

\* export_channel_threads: the threads directory of the channel, written
\* when the channel has any thread; the for loop advances.
Threads ==
  /\ pc = "threads"
  /\ SupportsThreads(contentType[channel_id])
  /\ FetchOptional("threads", <<"threads", channel_id>>,
                   HasThreads(channel_id), "channel_top")
  /\ idx' = idx + 1

\* The thread listing fails (an empty list is returned) or the export of the
\* threads raises.
ThreadsError ==
  /\ pc = "threads"
  /\ SupportsThreads(contentType[channel_id])
  /\ FetchOptionalError("threads", <<"threads", channel_id>>, "channel_top")
  /\ idx' = idx + 1

\* A channel of a type without threads; the for loop advances.
NoThreads ==
  /\ pc = "threads"
  /\ ~SupportsThreads(contentType[channel_id])
  /\ idx' = idx + 1
  /\ pc' = "channel_top"
  /\ UNCHANGED <<outside, cursors, optVars, channelsFile, disk, checkpoint, hist,
                 save_ret, cpage, past, kills, errors, runs>>

\* server_<id>_members.json
FetchMembers ==
  /\ FetchOptional("after_channels", <<"members", 0>>, TRUE, "fetch_groups")
  /\ UNCHANGED idx

FetchMembersError ==
  /\ FetchOptionalError("after_channels", <<"members", 0>>, "fetch_groups")
  /\ UNCHANGED idx

\* server_<id>_groups.json
FetchGroups ==
  /\ FetchOptional("fetch_groups", <<"groups", 0>>, TRUE, "fetch_roles")
  /\ UNCHANGED idx

FetchGroupsError ==
  /\ FetchOptionalError("fetch_groups", <<"groups", 0>>, "fetch_roles")
  /\ UNCHANGED idx

\* server_<id>_roles.json
FetchRoles ==
  /\ FetchOptional("fetch_roles", <<"roles", 0>>, TRUE, "readme")
  /\ UNCHANGED idx

FetchRolesError ==
  /\ FetchOptionalError("fetch_roles", <<"roles", 0>>, "readme")
  /\ UNCHANGED idx

\* What export_server_full logs at its end, and what its callers
\* export_single_server_raw and export_all_servers_raw print after it.
CompleteLog == "RAW WebSocket export complete!"
CallerMessages ==
  {"Server export completed successfully!",
   "All 1 servers exported successfully!"}

\* README.txt and the final log; export_server_full returns and its caller
\* prints its message.
Finish ==
  /\ pc = "readme"
  /\ \E printed \in CallerMessages : report' = {CompleteLog, printed}
  /\ pc' = "finished"
  /\ UNCHANGED <<outside, cursors, optFiles, requested, failed, channelsFile, disk,
                 checkpoint, idx, hist, save_ret, cpage, past, kills, errors,
                 runs>>

\* The process is killed: its memory is gone, the disk stays as it is.
Kill ==
  /\ pc \notin {"idle", "finished"}
  /\ kills < MaxKills
  /\ kills' = kills + 1
  /\ pc' = "idle"
  /\ checkpoint' = EmptyCheckpoint
  /\ FreshLocals
  /\ exported_at_start' = {}
  /\ written' = <<>>
  /\ cursors' = <<>>
  /\ requested' = {}
  /\ failed' = {}
  /\ report' = {}
  /\ UNCHANGED <<outside, optFiles, channelsFile, disk, truncated,
                 last_error_run, errors, runs>>

Next ==
  \/ StartRun
  \/ FetchUser
  \/ FetchInfo
  \/ FetchChannels
  \/ ChannelsDump
  \/ FetchChannelsError
  \/ EndChannels
  \/ SkipChannel
  \/ BeginHistory
  \/ Request
  \/ RequestError
  \/ PageOpen
  \/ PageDump
  \/ PageReplace
  \/ SaveOpen
  \/ SaveDump
  \/ SaveReplace
  \/ Sleep
  \/ MergeOpen
  \/ MergeDump
  \/ CleanupUnlink
  \/ CleanupEnd
  \/ MarkEmptyDone
  \/ Pinned
  \/ Threads
  \/ NoThreads
  \/ FetchMembers
  \/ FetchGroups
  \/ FetchRoles
  \/ Finish
  \/ Kill

Spec == Init /\ [][Next]_vars

\* The server where only the first channel has messages, with an export
\* process that does not stall: a request answers or fails, a file
\* operation and a suspension end.
InitLoop ==
  /\ Init
  /\ serverData[ChannelIds[2]] = <<>>

SpecLoop == InitLoop /\ [][Next]_vars /\ WF_vars(Next)

\* ------------------------------ export_server_full: failing optional resources
\* Histories tried where the optional requests may fail: none, and one of
\* more than a page.
ResourceSizes == {0, PageSize + 1}

InitResources ==
  /\ serverData \in [ServerChannels -> {History(n) : n \in ResourceSizes}]
  /\ contentType = ListedTypes
  /\ credential_ok = TRUE
  /\ RawFormatIdle
  /\ RawIdle
  /\ TranslatorIdle

NextResources ==
  \/ StartRun
  \/ FetchUser
  \/ FetchInfo
  \/ FetchChannels
  \/ ChannelsDump
  \/ FetchChannelsError
  \/ EndChannels
  \/ SkipChannel
  \/ BeginHistory
  \/ Request
  \/ RequestError
  \/ PageOpen
  \/ PageDump
  \/ PageReplace
  \/ SaveOpen
  \/ SaveDump
  \/ SaveReplace
  \/ Sleep
  \/ MergeOpen
  \/ MergeDump
  \/ CleanupUnlink
  \/ CleanupEnd
  \/ MarkEmptyDone
  \/ Pinned
  \/ Threads
  \/ NoThreads
  \/ FetchMembers
  \/ FetchGroups
  \/ FetchRoles
  \/ Finish
  \/ Kill
  \/ FetchUserError
  \/ FetchInfoError
  \/ PinnedError
  \/ ThreadsError
  \/ FetchMembersError
  \/ FetchGroupsError
  \/ FetchRolesError

SpecResources == InitResources /\ [][NextResources]_vars

\* ----------------------------------------------------------- the DM export
\* DM channel counts tried: the page-boundary cases up to MaxDMs.
DmSizes == {0, 1, DmPageSize, MaxDMs} \cap (0..MaxDMs)

\* The DM channel records of a user with n DMs, newest first.  createdAt is
\* the channel's creation time, or None when the service sends no dates.
DmChannels(n, dated) ==
  [i \in 1..n |-> [id |-> n - i + 1,
                   createdAt |-> IF dated THEN n - i + 1 ELSE None]]

\* The message history of a DM channel: DM 1 holds more than a page.
DmHistory(id) == History(IF id = 1 THEN PageSize + 1 ELSE id % 2)

\* GET users/<id>/channels?maxItems=25&cursor=<cursor>
FetchDmPage(cur) ==
  LET older == IF cur = None THEN dmData
               ELSE SelectSeq(dmData, LAMBDA ch : ch.createdAt < cur)
  IN SubSeq(older, 1, Min(DmPageSize, Len(older)))

\* last.get("createdAt") or last.get("updatedAt") or lastMessage.createdAt
\* (a record without createdAt has neither of the other two).
DmCursor(last) == IF last.createdAt # None THEN last.createdAt ELSE None

dm_channel_id == dmlist[idx].id

\* What the DM export leaves alone.
serverVars == <<translator, serverData, contentType, credential_ok, rawFormatVars,
               channelsFile, optVars,
                pageFiles,
                pageTmp, msgFile, ckptFile, ckptTmp, checkpoint,
                existing_pages, save_ret, cpage, truncated, exported_at_start,
                written, cursors, kills>>

InitDM ==
  /\ dmData \in {DmChannels(n, d) : n \in DmSizes, d \in BOOLEAN}
  /\ dmlist = <<>>
  /\ cursor = None
  /\ dmIndexFile = Absent(NoIndex)
  /\ dmFiles = <<>>
  /\ serverData = [c \in ServerChannels |-> <<>>]
  /\ pageFiles = [c \in ServerChannels |-> <<>>]
  /\ pageTmp = [c \in ServerChannels |-> <<>>]
  /\ msgFile = [c \in ServerChannels |-> Absent(NoMessages)]
  /\ ckptFile = Absent(EmptyCheckpoint)
  /\ ckptTmp = Absent(EmptyCheckpoint)
  /\ pc = "idle"
  /\ checkpoint = EmptyCheckpoint
  /\ idx = 1
  /\ all_messages = <<>>
  /\ before_id = None
  /\ page = 0
  /\ existing_pages = 0
  /\ messages = <<>>
  /\ loop_exit = "none"
  /\ save_ret = "none"
  /\ cpage = 0
  /\ contentType = ListedTypes
  /\ credential_ok = TRUE
  /\ RawFormatIdle
  /\ channelsFile = Absent(NoListing)
  /\ optFiles = {}
  /\ requested = {}
  /\ failed = {}
  /\ report = {}
  /\ TranslatorIdle
  /\ truncated = {}
  /\ last_error_run = 0
  /\ exported_at_start = {}
  /\ written = <<>>
  /\ cursors = <<>>
  /\ kills = 0
  /\ errors = 0
  /\ runs = 0

\* A process start with the DM choice: export_all_dms, fetch_dm_channels.
StartDms ==
  /\ pc \in {"idle", "dm_done", "dm_failed"}
  /\ runs < MaxRuns
  /\ runs' = runs + 1
  /\ dmlist' = <<>>
  /\ cursor' = None
  /\ pc' = "dm_list"
  /\ UNCHANGED <<serverVars, dmData, dmIndexFile, dmFiles, idx, all_messages,
                 before_id, page, messages, loop_exit, last_error_run,
                 errors>>

\* One GET of the DM listing answers; at a break, export_all_dms goes on.
DmListRequest ==
  /\ pc = "dm_list"
  /\ LET channels == FetchDmPage(cursor)
         more == /\ channels # <<>>
                 /\ DmCursor(Last(channels)) # None
                 /\ ~(Len(channels) < DmPageSize)
     IN /\ dmlist' = dmlist \o channels
        /\ cursor' = IF channels = <<>> THEN cursor
                     ELSE DmCursor(Last(channels))
        /\ pc' = IF more THEN "dm_list_sleep"
                 ELSE IF dmlist' = <<>> THEN "dm_done"
                 ELSE "dm_index_open"
  /\ UNCHANGED <<serverVars, dmData, dmIndexFile, dmFiles, idx, all_messages,
                 before_id, page, messages, loop_exit, last_error_run,
                 errors, runs>>

\* One GET of the DM listing fails: raise_for_status raises through
\* fetch_dm_channels and export_all_dms to export.py, which exits; the locals
\* of fetch_dm_channels are gone.
DmListRequestError ==
  /\ pc = "dm_list"
  /\ errors < MaxErrors
  /\ errors' = errors + 1
  /\ last_error_run' = runs
  /\ pc' = "dm_failed"
  /\ dmlist' = <<>>
  /\ cursor' = None
  /\ UNCHANGED <<serverVars, dmData, dmIndexFile, dmFiles, idx, all_messages,
                 before_id, page, messages, loop_exit, runs>>

\* asyncio.sleep(self.page_delay) of the DM listing returns.
DmListSleep ==
  /\ pc = "dm_list_sleep"
  /\ pc' = "dm_list"
  /\ UNCHANGED <<serverVars, dmVars, idx, all_messages, before_id, page,
                 messages, loop_exit, last_error_run, errors, runs>>

\* export_all_dms: open(dm_index_path, 'w').
DmIndexOpen ==
  /\ pc = "dm_index_open"
  /\ dmIndexFile' = Partial(NoIndex)
  /\ pc' = "dm_index_dump"
  /\ UNCHANGED <<serverVars, dmData, dmlist, cursor, dmFiles, idx,
                 all_messages, before_id, page, messages, loop_exit,
                 last_error_run, errors, runs>>

\* export_all_dms: json.dump and close; the for loop starts.
DmIndexDump ==
  /\ pc = "dm_index_dump"
  /\ dmIndexFile' = File([channels |-> dmlist, total_channels |-> Len(dmlist)])
  /\ idx' = 1
  /\ pc' = "dm_top"
  /\ UNCHANGED <<serverVars, dmData, dmlist, cursor, dmFiles, all_messages,
                 before_id, page, messages, loop_exit, last_error_run,
                 errors, runs>>

\* The for loop of export_all_dms is exhausted.
DmEnd ==
  /\ pc = "dm_top"
  /\ idx > Len(dmlist)
  /\ pc' = "dm_done"
  /\ UNCHANGED <<serverVars, dmVars, idx, all_messages, before_id, page,
                 messages, loop_exit, last_error_run, errors, runs>>

\* export_dm_channel enters export_channel_history (no raw_dir, no checkpoint).
DmBeginHistory ==
  /\ pc = "dm_top"
  /\ idx <= Len(dmlist)
  /\ all_messages' = <<>>
  /\ before_id' = None
  /\ page' = 0
  /\ messages' = <<>>
  /\ loop_exit' = "none"
  /\ pc' = "dm_request"
  /\ UNCHANGED <<serverVars, dmVars, idx, last_error_run, errors, runs>>

\* One GET of the message loop answers (nothing is spooled without raw_dir).
DmRequest ==
  /\ pc = "dm_request"
  /\ LET msgs == FetchPage(DmHistory(dm_channel_id), before_id)
     IN /\ messages' = msgs
        /\ IF msgs = <<>>
           THEN /\ loop_exit' = "empty"
                /\ pc' = "dm_return"
                /\ UNCHANGED <<page, all_messages, before_id>>
           ELSE /\ page' = page + 1
                /\ all_messages' = all_messages \o msgs
                /\ IF ShortPage(msgs)
                   THEN /\ loop_exit' = "short"
                        /\ pc' = "dm_return"
                        /\ UNCHANGED before_id
                   ELSE /\ before_id' = NextCursor(msgs)
                        /\ pc' = "dm_sleep"
                        /\ UNCHANGED loop_exit
  /\ UNCHANGED <<serverVars, dmVars, idx, last_error_run, errors, runs>>

\* One GET of the message loop fails.
DmRequestError ==
  /\ pc = "dm_request"
  /\ errors < MaxErrors
  /\ errors' = errors + 1
  /\ last_error_run' = runs
  /\ loop_exit' = "error"
  /\ pc' = "dm_return"
  /\ UNCHANGED <<serverVars, dmVars, idx, all_messages, before_id, page,
                 messages, runs>>

\* asyncio.sleep(self.page_delay) of the message loop returns.
DmSleep ==
  /\ pc = "dm_sleep"
  /\ pc' = "dm_request"
  /\ UNCHANGED <<serverVars, dmVars, idx, all_messages, before_id, page,
                 messages, loop_exit, last_error_run, errors, runs>>

\* export_dm_channel: `if not messages: return`.
DmNoMessages ==
  /\ pc = "dm_return"
  /\ all_messages = <<>>
  /\ idx' = idx + 1
  /\ pc' = "dm_top"
  /\ UNCHANGED <<serverVars, dmVars, all_messages, before_id, page, messages,
                 loop_exit, last_error_run, errors, runs>>

\* export_dm_channel: open(messages_path, 'w').
DmFileOpen ==
  /\ pc = "dm_return"
  /\ all_messages # <<>>
  /\ dmFiles' = With(dmFiles, dm_channel_id, Partial(NoMessages))
  /\ pc' = "dm_file_dump"
  /\ UNCHANGED <<serverVars, dmData, dmlist, cursor, dmIndexFile, idx,
                 all_messages, before_id, page, messages, loop_exit,
                 last_error_run, errors, runs>>

\* export_dm_channel: json.dump and close; the for loop advances.
DmFileDump ==
  /\ pc = "dm_file_dump"
  /\ dmFiles' = With(dmFiles, dm_channel_id, File(MergedArtifact(all_messages)))
  /\ idx' = idx + 1
  /\ pc' = "dm_top"
  /\ UNCHANGED <<serverVars, dmData, dmlist, cursor, dmIndexFile,
                 all_messages, before_id, page, messages, loop_exit,
                 last_error_run, errors, runs>>

NextDM ==
  \/ StartDms
  \/ DmListRequest
  \/ DmListRequestError
  \/ DmListSleep
  \/ DmIndexOpen
  \/ DmIndexDump
  \/ DmEnd
  \/ DmBeginHistory
  \/ DmRequest
  \/ DmRequestError
  \/ DmSleep
  \/ DmNoMessages
  \/ DmFileOpen
  \/ DmFileDump

SpecDM == InitDM /\ [][NextDM]_vars

\* ------------------------------------- translated mode: export_channels
\* What no step of the translated-mode exporter changes.
rawVars == <<dmVars, serverData, contentType, credential_ok, rawFormatVars,
            channelsFile, optVars, cursors,
             disk, memory, past,
             kills, errors, runs>>

CHANNEL_TYPE_MAP ==
  [chat |-> 0, voice |-> 2, stream |-> 13, announcement |-> 5, forum |-> 15,
   media |-> 16, docs |-> 15, list |-> 15]

\* `discord_type = self.CHANNEL_TYPE_MAP.get(channel_type, 0)`
DiscordType(channel_type) ==
  IF channel_type \in DOMAIN CHANNEL_TYPE_MAP
  THEN CHANNEL_TYPE_MAP[channel_type] ELSE 0

\* A skip test that lets every type through.
NoTypeUnsupported(channel_type) == FALSE

\* `if channel_type in ["scheduling"]: ... continue`
Unsupported(channel_type) == channel_type \in {"scheduling"}

\* The servers of the account, as the "me" response lists them.
Teams == <<1, 2>>

\* The selections of main_discord: one server, or 0 for all of them.
TeamSelections == {<<Teams[i]>> : i \in 1..Len(Teams)} \cup {Teams}

\* GET teams/<t>/channels: server 1 is the server of the raw export, the
\* channels of the other servers have ids of their own and the same types.
TeamListing(t) ==
  [i \in 1..Len(ChannelIds) |->
     [id |-> ChannelIds[i] + 1000 * (t - 1),
      contentType |-> contentType[ChannelIds[i]]]]

\* The server the for loop of main_discord is at.
team == teams[team_pos]

\* The channel the for loop of export_channels is at.
xchannel == TeamListing(team)[xidx]

\* main_discord with the failure of the "me" request passed over: the job
\* goes on to the servers.
MeErrorCaught ==
  /\ xpc = "idle"
  /\ ~credential_ok
  /\ teams' \in TeamSelections
  /\ team_pos' = 1
  /\ xpc' = "job_loop"
  /\ UNCHANGED <<rawVars, xidx, channel_index, indexFile, channelJson,
                 servers_done, fetch_failed, textVars, permVars>>

\* main_discord: the "me" request succeeds and the user selects the servers.
StartDiscordJob ==
  /\ xpc = "idle"
  /\ credential_ok
  /\ teams' \in TeamSelections
  /\ team_pos' = 1
  /\ xpc' = "job_loop"
  /\ UNCHANGED <<rawVars, xidx, channel_index, indexFile, channelJson,
                 servers_done, fetch_failed, textVars, permVars>>

\* main_discord: the "me" request raises (bad credential): sys.exit(1).
MeError ==
  /\ xpc = "idle"
  /\ ~credential_ok
  /\ xpc' = "exited"
  /\ UNCHANGED <<rawVars, xidx, channel_index, indexFile, channelJson,
                 jobVars, textVars, permVars>>

\* One iteration of the for loop over the servers: export_all, which is
\* export_all_discord up to its call of export_channels.
ExportAll ==
  /\ xpc = "job_loop"
  /\ team_pos <= Len(teams)
  /\ xpc' = "export_channels"
  /\ UNCHANGED <<rawVars, xidx, channel_index, indexFile, channelJson,
                 jobVars, textVars, permVars>>

\* export_channels: the listing is fetched, the for loop starts.
ExportChannels ==
  /\ xpc = "export_channels"
  /\ channel_index' = <<>>
  /\ xidx' = 1
  /\ xpc' = "channels_loop"
  /\ UNCHANGED <<rawVars, indexFile, channelJson, jobVars, textVars, permVars>>

\* export_channels: `self.fetch` raises.  Nothing catches the exception in
\* export_channels, export_all_discord, export_all or the for loop of
\* main_discord; its `except Exception` ends the process with sys.exit(1).
ExportChannelsError ==
  /\ xpc = "export_channels"
  /\ fetch_failed' = fetch_failed \cup {team}
  /\ xpc' = "exited"
  /\ UNCHANGED <<rawVars, xidx, channel_index, indexFile, channelJson, teams,
                 team_pos, servers_done, textVars, permVars>>

\* `continue`: the channel's type is unsupported.
SkipUnsupported ==
  /\ xpc = "channels_loop"
  /\ xidx <= Len(ChannelIds)
  /\ Unsupported(xchannel.contentType)
  /\ xidx' = xidx + 1
  /\ UNCHANGED <<rawVars, xpc, channel_index, indexFile, channelJson, jobVars,
                 textVars, permVars>>

\* The channel enters the index and its channel.json is written.
WriteChannelJson ==
  /\ xpc = "channels_loop"
  /\ xidx <= Len(ChannelIds)
  /\ ~Unsupported(xchannel.contentType)
  /\ channel_index' = With(channel_index, xchannel.id, xchannel.id)
  /\ channelJson' =
       With(channelJson, xchannel.id,
            [id |-> xchannel.id, type |-> DiscordType(xchannel.contentType)])
  /\ xidx' = xidx + 1
  /\ UNCHANGED <<rawVars, xpc, indexFile, jobVars, textVars, permVars>>

\* The for loop is exhausted: messages/index.json is written.
WriteIndex ==
  /\ xpc = "channels_loop"
  /\ xidx > Len(ChannelIds)
  /\ indexFile' = File(channel_index)
  /\ xpc' = "channels_done"
  /\ UNCHANGED <<rawVars, xidx, channel_index, channelJson, jobVars, textVars,
                 permVars>>

\* The rest of export_all_discord (each export_messages call is in a try of
\* its own); export_all returns to the for loop of main_discord.
ExportAllReturn ==
  /\ xpc = "channels_done"
  /\ servers_done' = servers_done \cup {team}
  /\ team_pos' = team_pos + 1
  /\ xpc' = "job_loop"
  /\ UNCHANGED <<rawVars, xidx, channel_index, indexFile, channelJson, teams,
                 fetch_failed, textVars, permVars>>

\* The for loop over the servers is exhausted: the success message.
JobDone ==
  /\ xpc = "job_loop"
  /\ team_pos > Len(teams)
  /\ xpc' = "job_done"
  /\ UNCHANGED <<rawVars, xidx, channel_index, indexFile, channelJson,
                 jobVars, textVars, permVars>>

\* A server whose two channels have any of the types tried; its channel
\* list is exported in translated mode and snapshotted by a raw-mode run.
InitChannels ==
  /\ contentType \in [ServerChannels -> ContentTypes]
  /\ credential_ok \in BOOLEAN
  /\ RawFormatIdle
  /\ serverData = [c \in ServerChannels |-> <<>>]
  /\ RawIdle
  /\ TranslatorIdle

NextChannels ==
  \/ StartDiscordJob
  \/ MeError
  \/ ExportAll
  \/ ExportChannels
  \/ ExportChannelsError
  \/ SkipUnsupported
  \/ WriteChannelJson
  \/ WriteIndex
  \/ ExportAllReturn
  \/ JobDone
  \/ RawMeError
  \/ StartRun
  \/ FetchUser
  \/ FetchInfo
  \/ FetchChannels
  \/ ChannelsDump

SpecChannels == InitChannels /\ [][NextChannels]_vars

\* --------------------------------------- translated mode: _process_text
\* Longest marks list of a leaf.
MaxMarks == 4

\* Mark types tried ("spoiler" stands for a type _process_text has no branch
\* for).
MarkTypes ==
  {"bold", "italic", "underline", "strikethrough", "code", "spoiler"}

\* The marks lists tried: up to MaxMarks distinct mark types, in any order.
MarkLists ==
  UNION {{m \in [1..n -> MarkTypes] :
            \A i, j \in 1..n : i # j => m[i] # m[j]} : n \in 0..MaxMarks}

LeafTexts == {"t", "hi"}

\* The grave accent of inline code (a character no TLA+ string can hold; no
\* other branch produces the stand-in and no text tried contains it).
Tick == "'"

\* An italic branch that wraps with underscores.
WrapItalicUnderscore(mark_type, t) ==
  IF mark_type = "bold" THEN "**" \o t \o "**"
  ELSE IF mark_type = "italic" THEN "_" \o t \o "_"
  ELSE IF mark_type = "underline" THEN "__" \o t \o "__"
  ELSE IF mark_type = "strikethrough" THEN "~~" \o t \o "~~"
  ELSE IF mark_type = "code" THEN Tick \o t \o Tick
  ELSE t

\* The if/elif chain over mark_type of _process_text.
Wrap(mark_type, t) ==
  IF mark_type = "bold" THEN "**" \o t \o "**"
  ELSE IF mark_type = "italic" THEN "*" \o t \o "*"
  ELSE IF mark_type = "underline" THEN "__" \o t \o "__"
  ELSE IF mark_type = "strikethrough" THEN "~~" \o t \o "~~"
  ELSE IF mark_type = "code" THEN Tick \o t \o Tick
  ELSE t

\* `for mark in marks:` over a whole marks list.
RECURSIVE RenderLeaf(_, _)
RenderLeaf(t, marks) ==
  IF marks = <<>> THEN t
  ELSE RenderLeaf(Wrap(Head(marks), t), Tail(marks))

\* `text = leaf.get("text", "")`, `marks = leaf.get("marks", [])`.
BeginLeaf ==
  /\ mark_pos = 0
  /\ text' = leaf.text
  /\ mark_pos' = 1
  /\ UNCHANGED <<rawVars, chanVars, permVars, leaf, slateVars>>

\* One iteration of `for mark in marks:`.
ApplyMark ==
  /\ mark_pos \in 1..Len(leaf.marks)
  /\ text' = Wrap(leaf.marks[mark_pos], text)
  /\ mark_pos' = mark_pos + 1
  /\ UNCHANGED <<rawVars, chanVars, permVars, leaf, slateVars>>

\* The for loop over the marks is exhausted: `result.append(text)`.
LeafRendered == mark_pos = Len(leaf.marks) + 1

InitText ==
  /\ leaf \in [text : LeafTexts, marks : MarkLists]
  /\ text = ""
  /\ mark_pos = 0
  /\ SlateIdle
  /\ JobIdle
  /\ guilded_perms = [is_dict |-> FALSE, categories |-> <<>>]
  /\ discord_perms = {}
  /\ perm_pos = <<0, 0>>
  /\ contentType = ListedTypes
  /\ credential_ok = TRUE
  /\ RawFormatIdle
  /\ serverData = [c \in ServerChannels |-> <<>>]
  /\ RawIdle

NextText ==
  \/ BeginLeaf
  \/ ApplyMark

SpecText == InitText /\ [][NextText]_vars

\* ---------------------------------- translated mode: convert_permissions
\* A bitmask is the set of its bit positions (0x00000006 is {1, 2}); `|` is
\* the union.
PERMISSION_MAP ==
  [CanUpdateTeam |-> {5},                   \* 0x00000020
   CanManageRoles |-> {28},                 \* 0x10000000
   CanInviteMembers |-> {0},                \* 0x00000001
   CanKickMembers |-> {1, 2},               \* 0x00000006
   CanManageChannels |-> {4},               \* 0x00000010
   CanManageWebhooks |-> {29},              \* 0x20000000
   CanMentionEveryone |-> {17},             \* 0x00020000
   CanModerateChannels |-> {13},            \* 0x00002000
   CanBypassSlowMode |-> {},                \* 0x00000000
   CanManageGroups |-> {4},                 \* 0x00000010
   CanReadChats |-> {10},                   \* 0x00000400
   CanCreateChats |-> {11},                 \* 0x00000800
   CanUploadChatMedia |-> {15},             \* 0x00008000
   CanManageChats |-> {13},                 \* 0x00002000
   CanCreateChatThreads |-> {47},           \* 0x0000800000000000
   CanReplyToChatThreads |-> {47},          \* 0x0000800000000000
   CanCreatePrivateMessages |-> {11},       \* 0x00000800
   CanManageChatThreads |-> {50},           \* 0x0004000000000000
   CanListenVoice |-> {20},                 \* 0x00100000
   CanAddVoice |-> {21},                    \* 0x00200000
   CanMuteMembers |-> {22},                 \* 0x00400000
   CanDeafenMembers |-> {23},               \* 0x00800000
   CanAssignVoiceGroup |-> {24},            \* 0x01000000
   CanBroadcastVoice |-> {21},              \* 0x00200000
   CanDirectVoice |-> {21},                 \* 0x00200000
   CanPrioritizeVoice |-> {21},             \* 0x00200000
   CanUseVoiceActivity |-> {25},            \* 0x02000000
   CanManageVoiceGroups |-> {4},            \* 0x00000010
   CanSendVoiceMessages |-> {11},           \* 0x00000800
   CanReadAnnouncements |-> {10},           \* 0x00000400
   CanCreateAnnouncementsV2 |-> {11},       \* 0x00000800
   CanManageAnnouncements |-> {13},         \* 0x00002000
   CanReadEvents |-> {10},                  \* 0x00000400
   CanCreateEvents |-> {20},                \* 0x00100000
   CanEditEvents |-> {20},                  \* 0x00100000
   CanDeleteEvents |-> {20},                \* 0x00100000
   CanEditEventRsvps |-> {20},              \* 0x00100000
   CanReadForums |-> {10},                  \* 0x00000400
   CanCreateThreads |-> {47},               \* 0x0000800000000000
   CanCreateThreadReplies |-> {11},         \* 0x00000800
   CanDeleteOtherPosts |-> {13},            \* 0x00002000
   CanStickyPosts |-> {13},                 \* 0x00002000
   CanLockThreads |-> {50},                 \* 0x0004000000000000
   CanReadMedia |-> {10},                   \* 0x00000400
   CanAddMedia |-> {15},                    \* 0x00008000
   CanEditMedia |-> {13},                   \* 0x00002000
   CanDeleteMedia |-> {13},                 \* 0x00002000
   CanManageCustomReactions |-> {30},       \* 0x40000000
   CanChangeNickname |-> {26},              \* 0x04000000
   CanManageNicknames |-> {27},             \* 0x08000000
   CanReadStreams |-> {10},                 \* 0x00000400
   CanJoinStreamVoice |-> {20},             \* 0x00100000
   CanCreateStreams |-> {9},                \* 0x00000200
   CanSendStreamMessages |-> {11},          \* 0x00000800
   CanAddStreamVoice |-> {21},              \* 0x00200000
   CanUseVoiceActivityInStream |-> {25}     \* 0x02000000
  ]

\* Flags tried ("CanUnknownFlag" is not a key of PERMISSION_MAP).
FlagSample ==
  <<"CanInviteMembers", "CanKickMembers", "CanCreateChatThreads",
    "CanUnknownFlag">>

\* The perms dicts tried: every flag of FlagSample absent, false or true.
PermDicts ==
  {SelectSeq([i \in 1..Len(FlagSample) |->
                [perm_id |-> FlagSample[i], value |-> v[i] = "true",
                 present |-> v[i] # "absent"]],
             LAMBDA e : e.present) :
     v \in [1..Len(FlagSample) -> {"absent", "false", "true"}]}

\* The categories tried: a perms dict, or a value that is not a dict.
Categories ==
  {[is_dict |-> TRUE, perms |-> p] : p \in PermDicts}
    \cup {[is_dict |-> FALSE, perms |-> <<>>]}

\* An accumulation that toggles bits.
XorBits(a, b) == (a \ b) \cup (b \ a)

\* `discord_perms |= self.PERMISSION_MAP[perm_id]`
OrBits(a, b) == a \cup b

\* convert_permissions is entered: `discord_perms = 0`.
ConvertPermissions ==
  /\ perm_pos = <<0, 0>>
  /\ discord_perms' = {}
  /\ perm_pos' = IF guilded_perms.is_dict THEN <<1, 1>>
                 ELSE <<Len(guilded_perms.categories) + 1, 1>>
  /\ UNCHANGED <<rawVars, chanVars, textVars, guilded_perms>>

\* The inner for loop ends, or the category is not a dict: next category.
NextCategory ==
  /\ perm_pos[1] \in 1..Len(guilded_perms.categories)
  /\ LET perms == guilded_perms.categories[perm_pos[1]]
     IN ~perms.is_dict \/ perm_pos[2] > Len(perms.perms)
  /\ perm_pos' = <<perm_pos[1] + 1, 1>>
  /\ UNCHANGED <<rawVars, chanVars, textVars, guilded_perms, discord_perms>>

\* One iteration of `for perm_id, value in perms.items():`.
PermEntry ==
  /\ perm_pos[1] \in 1..Len(guilded_perms.categories)
  /\ LET perms == guilded_perms.categories[perm_pos[1]]
     IN /\ perms.is_dict
        /\ perm_pos[2] <= Len(perms.perms)
        /\ LET e == perms.perms[perm_pos[2]]
           IN discord_perms' =
                IF e.value /\ e.perm_id \in DOMAIN PERMISSION_MAP
                THEN OrBits(discord_perms, PERMISSION_MAP[e.perm_id])
                ELSE discord_perms
  /\ perm_pos' = <<perm_pos[1], perm_pos[2] + 1>>
  /\ UNCHANGED <<rawVars, chanVars, textVars, guilded_perms>>

\* `return discord_perms` is reached.
PermsReturned == perm_pos[1] = Len(guilded_perms.categories) + 1

InitPerms ==
  /\ guilded_perms \in
       [is_dict : {TRUE}, categories : [1..2 -> Categories]]
         \cup {[is_dict |-> FALSE, categories |-> <<>>]}
  /\ discord_perms = {}
  /\ perm_pos = <<0, 0>>
  /\ JobIdle
  /\ leaf = [text |-> "", marks |-> <<>>]
  /\ text = ""
  /\ mark_pos = 0
  /\ SlateIdle
  /\ contentType = ListedTypes
  /\ credential_ok = TRUE
  /\ RawFormatIdle
  /\ serverData = [c \in ServerChannels |-> <<>>]
  /\ RawIdle

NextPerms ==
  \/ ConvertPermissions
  \/ NextCategory
  \/ PermEntry

SpecPerms == InitPerms /\ [][NextPerms]_vars

\* -------------------------------------- translated mode: slate_to_markdown
\* `d.get(k, default)` on a dict (a function from its keys).
Get(d, k, default) == IF k \in DOMAIN d THEN d[k] ELSE default

\* The truth value of a dict.
Truthy(d) == DOMAIN d # {}

\* JSON null as the value of a string field (no URL tried equals it).
JsonNull == "null"

\* `sep.join(strs)`
RECURSIVE Join(_, _)
Join(sep, strs) ==
  IF strs = <<>> THEN ""
  ELSE IF Len(strs) = 1 THEN strs[1]
  ELSE strs[1] \o sep \o Join(sep, Tail(strs))

\* A role branch that renders a user reference.
MentionRoleAsPerson(mention_node) ==
  LET data == Get(mention_node, "data", EmptyDict)
      mention == Get(data, "mention", EmptyDict)
      mention_type == Get(mention, "type", "")
      mention_id == Get(mention, "id", "")
  IN IF mention_type = "person" THEN "<@" \o mention_id \o ">"
     ELSE IF mention_type = "role" THEN "<@" \o mention_id \o ">"
     ELSE IF mention_type = "channel"
       THEN "<#" \o Get(Get(data, "channel", EmptyDict), "id", mention_id)
              \o ">"
     ELSE "@" \o Get(mention, "name", mention_id)

_process_mention(mention_node) ==
  LET data == Get(mention_node, "data", EmptyDict)
      mention == Get(data, "mention", EmptyDict)
      mention_type == Get(mention, "type", "")
      mention_id == Get(mention, "id", "")
  IN IF mention_type = "person" THEN "<@" \o mention_id \o ">"
     ELSE IF mention_type = "role" THEN "<@&" \o mention_id \o ">"
     ELSE IF mention_type = "channel"
       THEN "<#" \o Get(Get(data, "channel", EmptyDict), "id", mention_id)
              \o ">"
     ELSE "@" \o Get(mention, "name", mention_id)

\* A custom-emoji branch that never uses the animated prefix.
ReactionNeverAnimated(reaction_node) ==
  LET data == Get(reaction_node, "data", EmptyDict)
      reaction == Get(data, "reaction", EmptyDict)
      custom_reaction == Get(reaction, "customReaction", EmptyDict)
  IN IF Truthy(custom_reaction)
     THEN "<:" \o Get(custom_reaction, "name", "emoji") \o ":"
            \o Get(custom_reaction, "id", "") \o ">"
     ELSE ":" \o Get(reaction, "id", "") \o ":"

_process_reaction(reaction_node) ==
  LET data == Get(reaction_node, "data", EmptyDict)
      reaction == Get(data, "reaction", EmptyDict)
      custom_reaction == Get(reaction, "customReaction", EmptyDict)
      is_animated == Get(custom_reaction, "apng", JsonNull) # JsonNull
      prefix == IF is_animated THEN "a" ELSE ""
  IN IF Truthy(custom_reaction)
     THEN "<" \o prefix \o ":" \o Get(custom_reaction, "name", "emoji") \o ":"
            \o Get(custom_reaction, "id", "") \o ">"
     ELSE ":" \o Get(reaction, "id", "") \o ":"

\* `inline_node.get("nodes", [{}])[0]` on an empty list: IndexError.
InlineRaises(inline_node) ==
  /\ Get(inline_node, "type", "") = "link"
  /\ Get(inline_node, "nodes", <<EmptyDict>>) = <<>>

\* _process_inline where it does not raise.
_process_inline(inline_node) ==
  LET node_type == Get(inline_node, "type", "")
      data == Get(inline_node, "data", EmptyDict)
      href == Get(data, "href", "")
      leaves == Get(Get(inline_node, "nodes", <<EmptyDict>>)[1], "leaves", <<>>)
      display == IF leaves # <<>> THEN Get(leaves[1], "text", href) ELSE href
  IN IF node_type = "link" THEN "[" \o display \o "](" \o href \o ")"
     ELSE IF node_type = "mention" THEN _process_mention(inline_node)
     ELSE IF node_type = "reaction" THEN _process_reaction(inline_node)
     ELSE ""

\* `for leaf in leaves: ... result.append(text)`, `"".join(result)`.
RECURSIVE RenderLeaves(_)
RenderLeaves(leaves) ==
  IF leaves = <<>> THEN ""
  ELSE RenderLeaf(Get(Head(leaves), "text", ""), Get(Head(leaves), "marks", <<>>))
         \o RenderLeaves(Tail(leaves))

_process_text(text_node) ==
  IF Get(text_node, "type", "") = "mention" THEN _process_mention(text_node)
  ELSE RenderLeaves(Get(text_node, "leaves", <<>>))

\* The for loop of _process_block: text and inline children are rendered
\* and concatenated, any other child is passed over.
RECURSIVE BlockContent(_)
BlockContent(nodes) ==
  IF nodes = <<>> THEN ""
  ELSE LET node == Head(nodes)
           object == Get(node, "object", "")
       IN (IF object = "text" THEN _process_text(node)
           ELSE IF object = "inline" THEN _process_inline(node)
           ELSE "")
            \o BlockContent(Tail(nodes))

_process_block(block) ==
  LET block_type == Get(block, "type", "")
      content_ == BlockContent(Get(block, "nodes", <<>>))
  IN IF block_type = "code-line" THEN Tick \o content_ \o Tick ELSE content_

\* The for loop of _process_nodes: the renderings of the block and text
\* nodes, every other node passed over.
RECURSIVE NodeResults(_)
NodeResults(nodes) ==
  IF nodes = <<>> THEN <<>>
  ELSE LET node == Head(nodes)
           object == Get(node, "object", "")
       IN (IF object = "block" THEN <<_process_block(node)>>
           ELSE IF object = "text" THEN <<_process_text(node)>>
           ELSE <<>>)
            \o NodeResults(Tail(nodes))

_process_nodes(nodes) == Join("\n", NodeResults(nodes))

\* The document's top-level nodes, as slate_to_markdown hands them on.
DocumentNodes(c) == Get(Get(c, "document", EmptyDict), "nodes", <<>>)

\* An inline child of a top-level block makes _process_inline raise.
SlateRaises(c) ==
  \E i \in 1..Len(DocumentNodes(c)) :
    LET node == DocumentNodes(c)[i]
    IN /\ Get(node, "object", "") = "block"
       /\ \E j \in 1..Len(Get(node, "nodes", <<>>)) :
            /\ Get(node.nodes[j], "object", "") = "inline"
            /\ InlineRaises(node.nodes[j])

\* slate_to_markdown where it does not raise.
slate_to_markdown(c) ==
  IF ~Truthy(c) \/ ~Truthy(Get(c, "document", EmptyDict)) THEN ""
  ELSE _process_nodes(DocumentNodes(c))

\* The trees tried.  Leaves: plain, with a known mark, with an unknown mark.
SlateLeaves ==
  {[text |-> "a", marks |-> <<>>], [text |-> "b", marks |-> <<"bold">>],
   [text |-> "c", marks |-> <<"spoiler">>]}

TextNode(leaves) == [object |-> "text", leaves |-> leaves]

SlateTexts == {TextNode(<<l>>) : l \in SlateLeaves}

Inline(type, rest) ==
  [k \in {"object", "type"} \cup DOMAIN rest |->
     IF k = "object" THEN "inline" ELSE IF k = "type" THEN type ELSE rest[k]]

\* Links: with a child leaf, with two child leaves, without a child list,
\* with an empty child list, with a child without leaves, with a leaf
\* without text, without data.
SlateLinks ==
  {Inline("link", [data |-> [href |-> "h"],
                   nodes |-> <<TextNode(<<[text |-> "d", marks |-> <<>>]>>)>>]),
   Inline("link", [data |-> [href |-> "h"],
                   nodes |-> <<TextNode(<<[text |-> "d", marks |-> <<>>],
                                          [text |-> "e", marks |-> <<>>]>>)>>]),
   Inline("link", [data |-> [href |-> "h"]]),
   Inline("link", [data |-> [href |-> "h"], nodes |-> <<>>]),
   Inline("link", [data |-> [href |-> "h"], nodes |-> <<TextNode(<<>>)>>]),
   Inline("link", [data |-> [href |-> "h"],
                   nodes |-> <<TextNode(<<[marks |-> <<>>]>>)>>]),
   Inline("link", [nodes |-> <<TextNode(<<[text |-> "d", marks |-> <<>>]>>)>>])}

\* Mentions: of a person, a role, a channel with and without channel data,
\* of another kind with and without a name.
MentionData ==
  {[mention |-> [type |-> "person", id |-> "u1"]],
   [mention |-> [type |-> "role", id |-> "r1"]],
   [mention |-> [type |-> "channel", id |-> "m1"], channel |-> [id |-> "c1"]],
   [mention |-> [type |-> "channel", id |-> "m1"]],
   [mention |-> [type |-> "here", id |-> "x1", name |-> "here"]],
   [mention |-> [type |-> "here", id |-> "x1"]]}

SlateMentions == {Inline("mention", [data |-> md]) : md \in MentionData}

\* A mention as a text node (`text_node.get("type") == "mention"`).
SlateTextMentions ==
  {[object |-> "text", type |-> "mention", data |-> md] : md \in MentionData}

\* Reactions: custom emoji with an apng value, without the apng key, with a
\* null apng, and without custom-emoji metadata.
ReactionData ==
  {[reaction |-> [id |-> "90", customReaction |->
                    [id |-> "7", name |-> "wave", apng |-> "w.apng"]]],
   [reaction |-> [id |-> "90", customReaction |-> [id |-> "7", name |-> "wave"]]],
   [reaction |-> [id |-> "90", customReaction |->
                    [id |-> "7", name |-> "wave", apng |-> JsonNull]]],
   [reaction |-> [id |-> "90"]]}

SlateReactions == {Inline("reaction", [data |-> rd]) : rd \in ReactionData}

\* An inline node of a kind _process_inline has no branch for.
SlateUnknownInlines ==
  {Inline("embed", [nodes |-> <<TextNode(<<[text |-> "z", marks |-> <<>>]>>)>>])}

SlateInlines ==
  SlateLinks \cup SlateMentions \cup SlateReactions \cup SlateUnknownInlines

Block(type, nodes) == [object |-> "block", type |-> type, nodes |-> nodes]

\* Block types tried ("quote" stands for a type _process_block has no
\* branch for).
BlockTypes == {"paragraph", "code-line", "quote"}

\* A block inside a block.
NestedBlocks ==
  {Block("paragraph", <<TextNode(<<[text |-> "n", marks |-> <<>>]>>)>>)}

BlockChildren ==
  SlateTexts \cup SlateTextMentions \cup SlateInlines \cup NestedBlocks

\* Blocks of one child, and of a leading text node and one more child.
SlateBlocks ==
  {Block(ty, <<ch>>) : ty \in BlockTypes, ch \in BlockChildren}
    \cup {Block("paragraph", <<TextNode(<<[text |-> "a", marks |-> <<>>]>>), ch>>) :
            ch \in BlockChildren}
    \cup {Block("paragraph", <<ch, TextNode(<<[text |-> "a", marks |-> <<>>]>>)>>) :
            ch \in BlockChildren}

\* Documents of one block, of a text node and a block, of two blocks.
SlateNodeLists ==
  {<<b>> : b \in SlateBlocks}
    \cup {<<t, b>> : t \in SlateTexts, b \in SlateBlocks}
    \cup {<<Block("paragraph", <<t>>), b>> : t \in SlateTexts, b \in SlateBlocks}

\* The arguments tried: an empty dict, a dict without a document, a document
\* without nodes, and the documents above.
SlateContents ==
  {EmptyDict, [document |-> EmptyDict], [document |-> [object |-> "document"]]}
    \cup {[document |-> [object |-> "document", nodes |-> ns]] :
            ns \in SlateNodeLists}

\* One call of slate_to_markdown: it returns a string or raises IndexError.
SlateToMarkdown ==
  /\ slate_pc = "called"
  /\ IF SlateRaises(content)
     THEN slate_pc' = "raised" /\ markdown' = ""
     ELSE slate_pc' = "returned" /\ markdown' = slate_to_markdown(content)
  /\ UNCHANGED <<rawVars, chanVars, permVars, leaf, text, mark_pos, content>>

InitSlate ==
  /\ content \in SlateContents
  /\ markdown = ""
  /\ slate_pc = "called"
  /\ leaf = [text |-> "", marks |-> <<>>]
  /\ text = ""
  /\ mark_pos = 0
  /\ JobIdle
  /\ guilded_perms = [is_dict |-> FALSE, categories |-> <<>>]
  /\ discord_perms = {}
  /\ perm_pos = <<0, 0>>
  /\ contentType = ListedTypes
  /\ credential_ok = TRUE
  /\ RawFormatIdle
  /\ serverData = [c \in ServerChannels |-> <<>>]
  /\ RawIdle

NextSlate ==
  \/ SlateToMarkdown

SpecSlate == InitSlate /\ [][NextSlate]_vars

\* ------------------------------- translated exporter: export_all_raw
\* page_delay arguments and GUILDED_EXPORT_DELAY_SECONDS values tried, in
\* milliseconds (Unset: no argument, variable not set).
DelayArgs == {Unset, 0, 2000}
DelayEnvs == {Unset, 1000}

\* `time.sleep(0.5)` of the while loop of export_all_raw, in milliseconds.
RawFormatSleep == 500

\* Everything export_all_raw leaves alone.
notRawFormat == <<translator, dmVars, serverData, contentType, credential_ok,
                  channelsFile, optVars, cursors, disk, memory, past, kills,
                  errors, runs>>

\* The channel the for loop of export_all_raw is at.
raw_channel_id == ChannelIds[raw_idx]

\* export_all_raw up to its for loop: raw_dir.mkdir, then user.json and
\* server_<id>_info.json, each in a try of its own, then the channel listing.
ExportAllRaw ==
  /\ raw_pc = "idle"
  /\ \E user_ok \in BOOLEAN, info_ok \in BOOLEAN :
       raw_dir' = raw_dir
                    \cup (IF user_ok THEN {<<"user", None>>} ELSE {})
                    \cup (IF info_ok THEN {<<"info", None>>} ELSE {})
                    \cup {<<"channels", None>>}
  /\ raw_idx' = 1
  /\ raw_pc' = "channel_top"
  /\ UNCHANGED <<notRawFormat, page_delay, raw_before_id, raw_all_messages,
                 sleeps>>

\* The channel listing request raises: the outer except logs it and
\* export_all_raw returns.
ExportAllRawError ==
  /\ raw_pc = "idle"
  /\ \E user_ok \in BOOLEAN, info_ok \in BOOLEAN :
       raw_dir' = raw_dir
                    \cup (IF user_ok THEN {<<"user", None>>} ELSE {})
                    \cup (IF info_ok THEN {<<"info", None>>} ELSE {})
  /\ raw_pc' = "returned"
  /\ UNCHANGED <<notRawFormat, page_delay, raw_idx, raw_before_id,
                 raw_all_messages, sleeps>>

\* The top of the for loop over the channels.
RawChannelTop ==
  /\ raw_pc = "channel_top"
  /\ raw_idx <= Len(ChannelIds)
  /\ raw_all_messages' = <<>>
  /\ raw_before_id' = None
  /\ raw_pc' = "fetch"
  /\ UNCHANGED <<notRawFormat, page_delay, raw_idx, raw_dir, sleeps>>

\* The for loop is over: export_all_raw returns.
RawReturn ==
  /\ raw_pc = "channel_top"
  /\ raw_idx > Len(ChannelIds)
  /\ raw_pc' = "returned"
  /\ UNCHANGED <<notRawFormat, page_delay, raw_idx, raw_before_id,
                 raw_all_messages, raw_dir, sleeps>>

\* One GET of the while loop answers.
RawFetch ==
  /\ raw_pc = "fetch"
  /\ LET msgs == FetchPage(serverData[raw_channel_id], raw_before_id)
     IN IF msgs = <<>>
        THEN /\ raw_pc' = "write"
             /\ UNCHANGED <<raw_all_messages, raw_before_id>>
        ELSE /\ raw_all_messages' = raw_all_messages \o msgs
             /\ IF Len(msgs) < PageSize
                THEN /\ raw_pc' = "write"
                     /\ UNCHANGED raw_before_id
                ELSE /\ raw_before_id' = Last(msgs)
                     /\ raw_pc' = "sleep"
  /\ UNCHANGED <<notRawFormat, page_delay, raw_idx, raw_dir, sleeps>>

\* One GET of the while loop raises: the loop ends.
RawFetchError ==
  /\ raw_pc = "fetch"
  /\ raw_pc' = "write"
  /\ UNCHANGED <<notRawFormat, page_delay, raw_idx, raw_before_id,
                 raw_all_messages, raw_dir, sleeps>>

\* The suspension after a full page.
RawSleep ==
  /\ raw_pc = "sleep"
  /\ sleeps' = Append(sleeps, RawFormatSleep)
  /\ raw_pc' = "fetch"
  /\ UNCHANGED <<notRawFormat, page_delay, raw_idx, raw_before_id,
                 raw_all_messages, raw_dir>>

\* After the while loop: channel_<id>_messages.json `if all_messages`, then
\* channel_<id>_pinned.json if the request answers with any message (a
\* failure is passed over); the for loop goes on.
RawWrite ==
  /\ raw_pc = "write"
  /\ \E pinned_ok \in BOOLEAN :
       raw_dir' =
         raw_dir
           \cup (IF raw_all_messages # <<>>
                 THEN {<<"messages", raw_channel_id>>} ELSE {})
           \cup (IF pinned_ok /\ HasPinned(raw_channel_id)
                 THEN {<<"pinned", raw_channel_id>>} ELSE {})
  /\ raw_idx' = raw_idx + 1
  /\ raw_pc' = "channel_top"
  /\ UNCHANGED <<notRawFormat, page_delay, raw_before_id, raw_all_messages,
                 sleeps>>

\* The exporter is constructed with any of the configurations tried.
InitRawFormat ==
  /\ RawIdle
  /\ serverData \in [ServerChannels -> {History(n) : n \in Sizes}]
  /\ contentType = ListedTypes
  /\ credential_ok = TRUE
  /\ TranslatorIdle
  /\ page_delay \in {PageDelay(arg, env) : arg \in DelayArgs, env \in DelayEnvs}
  /\ raw_pc = "idle"
  /\ raw_idx = 1
  /\ raw_before_id = None
  /\ raw_all_messages = <<>>
  /\ raw_dir = {}
  /\ sleeps = <<>>

NextRawFormat ==
  \/ ExportAllRaw
  \/ ExportAllRawError
  \/ RawChannelTop
  \/ RawReturn
  \/ RawFetch
  \/ RawFetchError
  \/ RawSleep
  \/ RawWrite

SpecRawFormat == InitRawFormat /\ [][NextRawFormat]_vars

\* ------------------------------------------------------------ the claims
Ceil(n, p) == (n + p - 1) \div p

\* The records of pages 1..n of a spool, in page order.
RECURSIVE ConcatPages(_, _)
ConcatPages(files, n) ==
  IF n = 0 THEN <<>> ELSE ConcatPages(files, n - 1) \o files[n]

\* The process is inside the while loop of export_channel_history.
InLoop ==
  \/ pc \in {"request", "page_open", "page_dump", "page_replace", "sleep"}
  \/ pc \in {"save_open", "save_dump", "save_replace"} /\ save_ret = "loop"

\* C1: when export_channel_history returns for a channel of N > 0 records and
\* no request has failed, the page counter is ceil(N/50), the last page
\* artifact holds N mod 50 records (50 when 50 divides N) and the returned
\* list holds the N records.
C1_PaginationCompleteness ==
  (pc = "hist_return" /\ errors = 0 /\ serverData[channel_id] # <<>>) =>
    LET N == Len(serverData[channel_id])
    IN /\ page = Ceil(N, PageSize)
       /\ page \in DOMAIN pageFiles[channel_id]
       /\ Len(pageFiles[channel_id][page]) =
            (IF N % PageSize = 0 THEN PageSize ELSE N % PageSize)
       /\ Len(all_messages) = N
       /\ all_messages = serverData[channel_id]

\* C1 witness: a fresh capture of 100 records has returned after two pages.
C1_Witness ==
  /\ pc = "hist_return"
  /\ errors = 0
  /\ kills = 0
  /\ Len(serverData[channel_id]) = 2 * PageSize
  /\ page = 2
  /\ loop_exit = "empty"

\* C2: when a run has finished and no request has ever failed, however many
\* earlier runs were killed and wherever, every channel's merged artifact is
\* the one an uninterrupted run produces: the same records in the same order
\* and the same total_messages (no artifact for an empty channel).
C2_ResumeEquivalence ==
  (pc = "finished" /\ errors = 0) =>
    \A c \in ServerChannels :
      LET one == UninterruptedHistory(serverData[c])
      IN msgFile[c] = (IF one = <<>> THEN Absent(NoMessages)
                       ELSE File(MergedArtifact(one)))

\* C2 witness: a run finished after a kill, having resumed its last channel
\* from pages that the killed run had written.
C2_Witness ==
  /\ pc = "finished"
  /\ errors = 0
  /\ kills >= 1
  /\ existing_pages >= 1
  /\ Len(all_messages) > PageSize

\* C3: a channel whose status in the checkpoint file is done keeps status
\* done in every later content of the checkpoint file.
C3_CheckpointMonotone ==
  [][\A c \in ServerChannels :
       ChannelStatus(ckptFile.data, c) = "done" =>
         ChannelStatus(ckptFile'.data, c) = "done"]_vars

\* C4: the merge, the cleanup and the save of status done happen only after
\* a capture loop that ended at an empty or a short page.
C4_DoneOnlyAfterNormalEnd ==
  (pc \in {"merge_dump", "cleanup"} \/ save_ret = "done") =>
    loop_exit \in {"empty", "short"}

\* C5: when a later run, in which no request failed, has finished, every
\* channel whose capture loop a failed request once ended after k >= 1 pages
\* has its complete history in the merged artifact.
C5_ResumeAfterError ==
  (pc = "finished" /\ last_error_run < runs) =>
    \A c \in truncated : msgFile[c] = File(MergedArtifact(serverData[c]))

\* C6: once _merge_and_cleanup_pages has returned for a channel, and as long
\* as the channel is done with messages in the checkpoint file, the channel
\* has no page artifact.
C6_MergeCleanup ==
  \A c \in ServerChannels :
    (\/ /\ pc \in {"save_open", "save_dump", "save_replace", "pinned"}
        /\ save_ret = "done" \/ pc = "pinned"
        /\ all_messages # <<>>
        /\ channel_id = c
     \/ /\ ChannelStatus(ckptFile.data, c) = "done"
        /\ ckptFile.data.channels[c].messages_exported > 0)
    => DOMAIN pageFiles[c] = {}

C8_ErrorKeepsPages ==
  loop_exit = "error" =>
    /\ ~InLoop
    /\ pc = "hist_return" =>
         /\ 1..page \subseteq DOMAIN pageFiles[channel_id]
         /\ all_messages = ConcatPages(pageFiles[channel_id], page)

\* C8 witness: a request failed after two pages of this call were written,
\* and export_channel_history has returned.
C8_Witness ==
  /\ pc = "hist_return"
  /\ loop_exit = "error"
  /\ page = 2
  /\ existing_pages = 0
  /\ Len(all_messages) = 2 * PageSize

\* C9: when the DM listing loop ends having accumulated channels, also by a
\* failed request, export_all_dms goes on with those channels (it writes the
\* index and exports them).
C9_DmListingKeepsPages ==
  [][(pc = "dm_list" /\ dmlist # <<>>
      /\ pc' \notin {"dm_list", "dm_list_sleep"}) =>
       /\ pc' = "dm_index_open"
       /\ Len(dmlist') >= Len(dmlist)
       /\ SubSeq(dmlist', 1, Len(dmlist)) = dmlist]_vars

\* C10: a channel that was done in the checkpoint file with its merged
\* artifact on disk when the run began keeps its merged artifact and its
\* checkpoint entry unchanged in every step of the run, and the run never
\* stands at a message request for it.
C10_DoneChannelSkipped ==
  [][\A c \in exported_at_start :
         /\ msgFile'[c] = msgFile[c]
         /\ c \in DOMAIN ckptFile'.data.channels
         /\ ckptFile'.data.channels[c] = ckptFile.data.channels[c]
         /\ ~(pc' = "request" /\ ChannelIds[idx'] = c)]_vars

\* C10 witness: a later run has passed over the first channel, which is done
\* with its merged artifact on disk, without entering its capture loop.
C10_Witness ==
  /\ runs >= 2
  /\ pc = "channel_top"
  /\ idx = 2
  /\ loop_exit = "none"
  /\ ChannelIds[1] \in exported_at_start
  /\ msgFile[ChannelIds[1]].data.total_messages = 120

\* C11: in the checkpointed capture loop, while the checkpoint of a fetched
\* page is being saved the page artifact of that page is already complete
\* under its name, and when the loop is about to request the next page (at
\* the sleep and at the request) the artifact holds the fetched page and the
\* checkpoint file holds that page's count, message count and last id.
C11_PageThenCheckpoint ==
  /\ (pc \in {"save_open", "save_dump", "save_replace"} /\ save_ret = "loop") =>
       /\ page \in DOMAIN pageFiles[channel_id]
       /\ pageFiles[channel_id][page] = messages
       /\ page \notin DOMAIN pageTmp[channel_id]
  /\ (pc \in {"sleep", "request"} /\ written # <<>>) =>
       /\ page = Last(written)
       /\ page \in DOMAIN pageFiles[channel_id]
       /\ pageFiles[channel_id][page] = messages
       /\ ckptFile.st = "complete"
       /\ channel_id \in DOMAIN ckptFile.data.channels
       /\ LET e == ckptFile.data.channels[channel_id]
          IN /\ e.status = "in_progress"
             /\ e.pages_fetched = page
             /\ e.messages_exported = Len(all_messages)
             /\ e.last_message_id = Last(pageFiles[channel_id][page])

\* C11 witness: the loop is about to request page 3, having written pages 1
\* and 2 and saved the checkpoint of page 2.
C11_Witness ==
  /\ pc = "request"
  /\ written = <<1, 2>>
  /\ ckptFile.data.channels[channel_id].pages_fetched = 2
  /\ ckptFile.data.channels[channel_id].messages_exported = 2 * PageSize

\* C12: the checkpoint file is never partially written, and each step either
\* leaves it as it is (so also a kill at any step of _save_checkpoint) or is
\* the os.replace that makes it the complete new checkpoint; _load_checkpoint
\* in the next run reads the file as it is.
C12_AtomicCheckpoint ==
  [][/\ ckptFile.st # "partial"
     /\ ckptFile'.st # "partial"
     /\ ckptFile' # ckptFile =>
          /\ pc = "save_replace"
          /\ ckptFile' = File(checkpoint)
     /\ (pc \in {"save_open", "save_dump", "save_replace"} /\ pc' = "idle") =>
          ckptFile' = ckptFile
     /\ (pc' = "fetch_user" /\ ckptFile.st = "complete") =>
          checkpoint' = ckptFile.data]_vars

\* C12 witness: the process was killed inside _save_checkpoint while the
\* temp file was partially written; the checkpoint file is the complete
\* previous one.
C12_Witness ==
  /\ pc = "idle"
  /\ kills = 1
  /\ ckptTmp.st = "partial"
  /\ ckptFile.st = "complete"
  /\ \E c \in ServerChannels : ChannelStatus(ckptFile.data, c) = "in_progress"

\* C13: every page artifact holds one complete non-empty page as one API
\* call returns it: the records that follow some cursor, up to 50 of them.
C13_PagesComplete ==
  \A c \in ServerChannels :
    \A n \in DOMAIN pageFiles[c] :
      LET p == pageFiles[c][n]
          data == serverData[c]
      IN /\ p # <<>>
         /\ \E i \in 1..Len(data) :
              /\ data[i] = p[1]
              /\ p = FetchPage(data, IF i = 1 THEN None ELSE data[i - 1])

\* C13 witness: the process was killed while the temp file of page 2 was
\* partially written; page 1 is on disk and no page 2 is.
C13_Witness ==
  /\ pc = "idle"
  /\ kills = 1
  /\ \E c \in ServerChannels :
       /\ 2 \in DOMAIN pageTmp[c]
       /\ pageTmp[c][2].st = "partial"
       /\ DOMAIN pageFiles[c] = {1}

\* C14: the page indexes one call of export_channel_history writes are
\* k+1, k+2, ... in this order, k being the number of pages it loaded (0 for
\* a fresh capture); the loaded pages are exactly pages 1..k of the disk, and
\* the page counter is the index written last or the one being written.
C14_PageOrder ==
  /\ \A i \in 1..Len(written) : written[i] = existing_pages + i
  /\ InLoop =>
       /\ 1..existing_pages \subseteq DOMAIN pageFiles[channel_id]
       /\ (pc = "request" /\ written = <<>>) =>
             (existing_pages + 1) \notin DOMAIN pageFiles[channel_id]
       /\ page - Len(written) \in {existing_pages, existing_pages + 1}

\* C14 witness: a capture resumed from page 1 has written pages 2 and 3.
C14_Witness ==
  /\ kills = 1
  /\ existing_pages = 1
  /\ written = <<2, 3>>

\* C15: no step writes a page artifact that exists (no os.replace onto it,
\* no change of its content), and a page artifact disappears only in the
\* cleanup of its channel, after the merged artifact was written.
C15_PageImmutable ==
  [][\A c \in ServerChannels :
       \A n \in DOMAIN pageFiles[c] :
         /\ ~(/\ pc = "page_replace"
              /\ pc' = "save_open"
              /\ channel_id = c
              /\ page = n)
         /\ n \in DOMAIN pageFiles'[c] => pageFiles'[c][n] = pageFiles[c][n]
         /\ n \notin DOMAIN pageFiles'[c] =>
              /\ pc = "cleanup"
              /\ channel_id = c
              /\ msgFile[c].st = "complete"]_vars

\* The records of all the pages of a spool, in ascending page index.
RECURSIVE AllPages(_)
AllPages(files) ==
  IF DOMAIN files = {} THEN <<>>
  ELSE LET n == CHOOSE k \in DOMAIN files : \A j \in DOMAIN files : j <= k
       IN AllPages(Without(files, n)) \o files[n]

\* C16: when _merge_and_cleanup_pages has written the merged artifact (and
\* has not yet deleted a page), the artifact's messages are the records of
\* the channel's page artifacts in ascending page index, and total_messages
\* is their number.
C16_MergeIsConcatenation ==
  (pc = "cleanup" /\ cpage = 1) =>
    /\ msgFile[channel_id].st = "complete"
    /\ msgFile[channel_id].data.messages = AllPages(pageFiles[channel_id])
    /\ msgFile[channel_id].data.total_messages =
         Len(msgFile[channel_id].data.messages)

\* C17: a leaf whose marks are exactly bold and italic, in either order,
\* renders as its text between two runs of three asterisks.
C17_BoldItalic ==
  (/\ LeafRendered
   /\ Len(leaf.marks) = 2
   /\ {leaf.marks[1], leaf.marks[2]} = {"bold", "italic"}) =>
    text = "***" \o leaf.text \o "***"

\* C17 witness: the leaf "t" with marks [italic, bold] has been rendered.
C17_Witness ==
  /\ LeafRendered
  /\ leaf = [text |-> "t", marks |-> <<"italic", "bold">>]
  /\ text = "***t***"

\* The mark types of a marks list.
MarkSet(marks) == {marks[i] : i \in 1..Len(marks)}

\* C18: the rendering of a leaf whose marks are among bold, italic,
\* underline, strikethrough and code is the rendering of every other ordering
\* of the same marks.
C18_MarkOrderIrrelevant ==
  (/\ LeafRendered
   /\ MarkSet(leaf.marks) \subseteq
        {"bold", "italic", "underline", "strikethrough", "code"}) =>
    \A m \in MarkLists :
      MarkSet(m) = MarkSet(leaf.marks) => RenderLeaf(leaf.text, m) = text

\* The bit positions of a small non-negative integer.
RECURSIVE BitsFrom(_, _)
BitsFrom(n, i) ==
  IF n = 0 THEN {}
  ELSE (IF n % 2 = 1 THEN {i} ELSE {}) \cup BitsFrom(n \div 2, i + 1)

\* The flags with value true in some category of a permissions argument.
TrueFlags(gp) ==
  IF ~gp.is_dict THEN {}
  ELSE {gp.categories[i].perms[j].perm_id :
          <<i, j>> \in
            {<<a, b>> \in (1..Len(gp.categories)) \X (1..Len(FlagSample)) :
               /\ gp.categories[a].is_dict
               /\ b <= Len(gp.categories[a].perms)
               /\ gp.categories[a].perms[b].value}}

\* C19: convert_permissions returns the OR of PERMISSION_MAP[f] over the
\* flags f that are true in some category and are keys of the table (0 when
\* there is none); CanInviteMembers and CanKickMembers alone give
\* 0x00000001 | 0x00000006.
C19_PermissionsAreOr ==
  PermsReturned =>
    /\ discord_perms =
         UNION {PERMISSION_MAP[f] :
                  f \in TrueFlags(guilded_perms) \cap DOMAIN PERMISSION_MAP}
    /\ TrueFlags(guilded_perms) = {"CanInviteMembers", "CanKickMembers"} =>
         discord_perms = BitsFrom(1, 0) \cup BitsFrom(6, 0)

\* C19 witness: CanKickMembers is true in both categories, CanInviteMembers
\* in one, the unmapped flag is false: the result is 0x00000007.
C19_Witness ==
  /\ PermsReturned
  /\ guilded_perms.is_dict
  /\ TrueFlags(guilded_perms) = {"CanInviteMembers", "CanKickMembers"}
  /\ \A i \in 1..2 :
       /\ guilded_perms.categories[i].is_dict
       /\ \E j \in 1..Len(guilded_perms.categories[i].perms) :
            LET e == guilded_perms.categories[i].perms[j]
            IN e.perm_id = "CanKickMembers" /\ e.value
  /\ discord_perms = {0, 1, 2}

\* C20: a channel whose contentType is scheduling is never in the channel
\* index of export_channels, never a key of a written messages/index.json
\* and has no channel.json, and it is in the channel list snapshot that the
\* raw export writes.
C20_SchedulingNotTranslated ==
  \A c \in ServerChannels :
    contentType[c] = "scheduling" =>
      /\ c \notin DOMAIN channel_index
      /\ indexFile.st = "complete" => c \notin DOMAIN indexFile.data
      /\ c \notin DOMAIN channelJson
      /\ channelsFile.st = "complete" =>
           \E i \in 1..Len(channelsFile.data) :
             channelsFile.data[i] = [id |-> c, contentType |-> "scheduling"]

\* C20 witness: a chat channel and a scheduling channel; the translated
\* export has written its index with the chat channel only, and the raw
\* export has written its snapshot of the listing.
C20_Witness ==
  /\ contentType[ChannelIds[1]] = "chat"
  /\ contentType[ChannelIds[2]] = "scheduling"
  /\ xpc = "channels_done"
  /\ indexFile.st = "complete"
  /\ DOMAIN indexFile.data = {ChannelIds[1]}
  /\ DOMAIN channelJson = {ChannelIds[1]}
  /\ channelsFile.st = "complete"
  /\ Len(channelsFile.data) = 2

\* C21: a channel whose contentType is not a key of CHANNEL_TYPE_MAP is
\* skipped entirely: it is never in the channel index of export_channels,
\* never a key of a written messages/index.json and has no channel.json.
C21_UnmappedTypeSkipped ==
  \A t \in 1..Len(Teams) : \A i \in 1..Len(ChannelIds) :
    LET channel == TeamListing(Teams[t])[i]
    IN channel.contentType \notin DOMAIN CHANNEL_TYPE_MAP =>
         /\ channel.id \notin DOMAIN channel_index
         /\ indexFile.st = "complete" => channel.id \notin DOMAIN indexFile.data
         /\ channel.id \notin DOMAIN channelJson

\* C29: a failed channel-list fetch for one server does not stop the job:
\* when the process has ended, every selected server whose own channel-list
\* fetch did not fail has been exported.
C29_OtherServersExported ==
  xpc \in {"exited", "job_done"} =>
    \A i \in 1..Len(teams) :
      teams[i] \notin fetch_failed => teams[i] \in servers_done

\* `t in s` on strings.
Contains(s, t) ==
  \E i \in 1..(Len(s) - Len(t) + 1) : SubSeq(s, i, i + Len(t) - 1) = t

\* The strings ts occur in s one after the other, in this order.
RECURSIVE InOrder(_, _)
InOrder(s, ts) ==
  IF ts = <<>> THEN TRUE
  ELSE \E i \in 1..(Len(s) - Len(Head(ts)) + 1) :
         /\ SubSeq(s, i, i + Len(Head(ts)) - 1) = Head(ts)
         /\ InOrder(SubSeq(s, i + Len(Head(ts)), Len(s)), Tail(ts))

\* The texts of the leaves of the text nodes of a tree, depth-first through
\* the blocks, in document order.
RECURSIVE TreeLeafTexts(_)
TreeLeafTexts(nodes) ==
  IF nodes = <<>> THEN <<>>
  ELSE LET node == Head(nodes)
           leaves == Get(node, "leaves", <<>>)
       IN (IF Get(node, "object", "") = "block"
           THEN TreeLeafTexts(Get(node, "nodes", <<>>))
           ELSE IF Get(node, "object", "") = "text"
                   /\ Get(node, "type", "") # "mention"
           THEN [i \in 1..Len(leaves) |-> Get(leaves[i], "text", "")]
           ELSE <<>>)
            \o TreeLeafTexts(Tail(nodes))

\* The document is one paragraph whose only child is a node of this type.
SoleChildOfType(type) ==
  /\ Len(DocumentNodes(content)) = 1
  /\ Get(DocumentNodes(content)[1], "object", "") = "block"
  /\ Get(DocumentNodes(content)[1], "type", "") = "paragraph"
  /\ Len(Get(DocumentNodes(content)[1], "nodes", <<>>)) = 1
  /\ Get(DocumentNodes(content)[1].nodes[1], "type", "") = type

SoleChild == DocumentNodes(content)[1].nodes[1]

\* C22: when slate_to_markdown has returned, the text of the inner leaves
\* of every inline node of unknown kind (not link, mention or reaction) in a
\* top-level block is in the returned string.
C22_UnknownInlineText ==
  slate_pc = "returned" =>
    \A i \in 1..Len(DocumentNodes(content)) :
      LET block == DocumentNodes(content)[i]
      IN Get(block, "object", "") = "block" =>
           \A j \in 1..Len(Get(block, "nodes", <<>>)) :
             LET node == block.nodes[j]
             IN (/\ Get(node, "object", "") = "inline"
                 /\ Get(node, "type", "") \notin {"link", "mention", "reaction"})
                  => InOrder(markdown, TreeLeafTexts(Get(node, "nodes", <<>>)))

\* C23: slate_to_markdown never raises, whatever tree of block, text and
\* inline nodes it is called with.
C23_NeverRaises == slate_pc # "raised"

\* C24: when slate_to_markdown has returned, the texts of all leaves of the
\* text nodes of the tree, at any depth of block nesting, are in the
\* returned string in document order.
C24_DepthFirst ==
  slate_pc = "returned" =>
    InOrder(markdown, TreeLeafTexts(DocumentNodes(content)))

\* The display text of a link, as C25 states it: the text of the first leaf
\* of its first child, else the href.
LinkHref(link) == Get(Get(link, "data", EmptyDict), "href", "")

LinkDisplay(link) ==
  LET children == Get(link, "nodes", <<>>)
      leaves == IF children = <<>> THEN <<>>
                ELSE Get(children[1], "leaves", <<>>)
  IN IF leaves = <<>> THEN LinkHref(link)
     ELSE Get(leaves[1], "text", LinkHref(link))

\* C25: called with a paragraph whose only child is a link, slate_to_markdown
\* returns [display](href), display being the text of the first leaf of the
\* link's first child, or the href when the link has no child leaf.
C25_LinkRendering ==
  (slate_pc # "called" /\ SoleChildOfType("link")) =>
    /\ slate_pc = "returned"
    /\ markdown =
         "[" \o LinkDisplay(SoleChild) \o "](" \o LinkHref(SoleChild) \o ")"

\* The rendering of a mention, as C26 states it.
MentionAsClaimed(data) ==
  LET kind == data.mention.type
      id == data.mention.id
  IN CASE kind = "person" -> "<@" \o id \o ">"
       [] kind = "role" -> "<@&" \o id \o ">"
       [] kind = "channel" ->
            "<#" \o (IF "channel" \in DOMAIN data THEN data.channel.id ELSE id)
              \o ">"
       [] OTHER ->
            "@" \o (IF "name" \in DOMAIN data.mention THEN data.mention.name
                    ELSE id)

\* C26: called with a paragraph whose only child is a mention (an inline
\* node or a text node), slate_to_markdown returns <@id> for a person,
\* <@&id> for a role, <#cid> for a channel (cid the channel data's id, else
\* the mention id) and @name for any other kind (the name, else the id).
C26_MentionRendering ==
  (slate_pc # "called" /\ SoleChildOfType("mention")) =>
    /\ slate_pc = "returned"
    /\ markdown = MentionAsClaimed(SoleChild.data)

\* C26 witness: a channel mention without channel data, rendered with the
\* mention id, and its call has returned.
C26_Witness ==
  /\ slate_pc = "returned"
  /\ SoleChildOfType("mention")
  /\ SoleChild.object = "inline"
  /\ SoleChild.data = [mention |-> [type |-> "channel", id |-> "m1"]]
  /\ markdown = "<#m1>"

\* The rendering of a reaction, as C27 states it (an apng that is null is
\* no apng).
ReactionAsClaimed(data) ==
  LET reaction == data.reaction
  IN IF "customReaction" \in DOMAIN reaction
     THEN LET custom == reaction.customReaction
              animated == "apng" \in DOMAIN custom /\ custom.apng # JsonNull
          IN (IF animated THEN "<a:" ELSE "<:")
               \o custom.name \o ":" \o custom.id \o ">"
     ELSE ":" \o reaction.id \o ":"

\* C27: called with a paragraph whose only child is a reaction,
\* slate_to_markdown returns <a:name:id> when the custom-emoji metadata has
\* an apng, <:name:id> when it has none, and :id: with the reaction's own id
\* when there is no custom-emoji metadata.
C27_ReactionRendering ==
  (slate_pc # "called" /\ SoleChildOfType("reaction")) =>
    /\ slate_pc = "returned"
    /\ markdown = ReactionAsClaimed(SoleChild.data)

\* C27 witness: a custom emoji with an apng has been rendered as animated.
C27_Witness ==
  /\ slate_pc = "returned"
  /\ SoleChildOfType("reaction")
  /\ "customReaction" \in DOMAIN SoleChild.data.reaction
  /\ "apng" \in DOMAIN SoleChild.data.reaction.customReaction
  /\ SoleChild.data.reaction.customReaction.apng # JsonNull
  /\ markdown = "<a:wave:7>"

\* The optional resources of the server and of a channel.
ServerResources ==
  {<<"user", 0>>, <<"info", 0>>, <<"members", 0>>, <<"groups", 0>>,
   <<"roles", 0>>}

ChannelResources(c) ==
  {<<"pinned", c>>}
    \cup (IF SupportsThreads(contentType[c]) THEN {<<"threads", c>>} ELSE {})

\* The optional resources that have something to write.
Writable ==
  ServerResources
    \cup {<<"pinned", c>> : c \in {x \in ServerChannels : HasPinned(x)}}
    \cup {<<"threads", c>> : c \in {x \in ServerChannels : HasThreads(x)}}

\* C28: when export_server_full has returned and its channel listing did not
\* fail, whatever optional requests failed, every optional resource of the
\* server has been requested, every listed channel that was not skipped as
\* already exported has had its messages captured and its own optional
\* resources requested, and every optional resource whose request did not
\* fail has its artifact.
C28_OptionalFailureIsLocal ==
  (pc = "finished" /\ <<"channels", 0>> \notin failed) =>
    /\ ServerResources \subseteq requested
    /\ \A c \in ServerChannels :
         \/ c \in exported_at_start
         \/ /\ <<"messages", c>> \in requested
            /\ ChannelResources(c) \subseteq requested
    /\ \A r \in (requested \cap Writable) \ failed : r \in optFiles

\* C28 witness: the pinned request of the first channel failed in the first
\* run; the run has finished, the channel's messages are merged, its threads
\* and all the server's resources are on disk and the second channel was
\* visited too.
C28_Witness ==
  /\ pc = "finished"
  /\ runs = 1
  /\ failed = {<<"pinned", ChannelIds[1]>>}
  /\ <<"pinned", ChannelIds[1]>> \notin optFiles
  /\ <<"threads", ChannelIds[1]>> \in optFiles
  /\ ServerResources \subseteq optFiles
  /\ msgFile[ChannelIds[1]].st = "complete"
  /\ Len(msgFile[ChannelIds[1]].data.messages) = PageSize + 1
  /\ <<"messages", ChannelIds[2]>> \in requested
  /\ <<"pinned", ChannelIds[2]>> \in requested

\* C30: when the channel-list fetch of a run failed, the run reports nothing
\* at its end: neither the completion log of export_server_full nor the
\* success message of its caller.
C30_NoSuccessWithoutChannels ==
  (pc = "finished" /\ <<"channels", 0>> \in failed) => report = {}

\* C35: when a translated-mode job over its servers has ended with its
\* success message, the keys of messages/index.json are the channels that
\* have a channel.json.
C35_IndexCoversAllServers ==
  xpc = "job_done" =>
    /\ indexFile.st = "complete"
    /\ DOMAIN indexFile.data = DOMAIN channelJson

\* The channels a checkpoint has as in_progress.
InProgressChannels(ck) ==
  {c \in DOMAIN ck.channels : ck.channels[c].status = "in_progress"}

\* C37: at most one channel is in_progress, in the checkpoint in memory and
\* in the checkpoint file, in every state of every sequence of runs, kills
\* and failed requests.
C37_OneInProgress ==
  /\ Cardinality(InProgressChannels(checkpoint)) <= 1
  /\ ckptFile.st = "complete" =>
       Cardinality(InProgressChannels(ckptFile.data)) <= 1

\* C38: a channel that a checkpoint (in memory or on disk) has as done with
\* messages_exported > 0 has a completely written channel_<id>_messages.json
\* whose total_messages is that count.
C38_DoneHasArtifact ==
  \A c \in ServerChannels :
    /\ (/\ ChannelStatus(checkpoint, c) = "done"
        /\ checkpoint.channels[c].messages_exported > 0) =>
         /\ msgFile[c].st = "complete"
         /\ msgFile[c].data.total_messages =
              checkpoint.channels[c].messages_exported
    /\ (/\ ckptFile.st = "complete"
        /\ ChannelStatus(ckptFile.data, c) = "done"
        /\ ckptFile.data.channels[c].messages_exported > 0) =>
         /\ msgFile[c].st = "complete"
         /\ msgFile[c].data.total_messages =
              ckptFile.data.channels[c].messages_exported

\* C38 witness: the process was killed after the first channel, of more than
\* a page, was marked done on disk; its merged artifact is complete with the
\* same count.
C38_Witness ==
  /\ pc = "idle"
  /\ kills = 1
  /\ ckptFile.st = "complete"
  /\ ChannelStatus(ckptFile.data, ChannelIds[1]) = "done"
  /\ ckptFile.data.channels[ChannelIds[1]].messages_exported = PageSize + 1
  /\ msgFile[ChannelIds[1]].st = "complete"
  /\ msgFile[ChannelIds[1]].data.total_messages = PageSize + 1

\* C40: a channel without messages never has a page artifact or a merged
\* artifact; a checkpoint entry it has is done with messages_exported = 0,
\* and it has that entry on disk once the loop has saved it; when the for
\* loop of a run is at the channel, the run's next step enters
\* export_channel_history for it and never skips it.
C40_EmptyChannel ==
  [][\A c \in ServerChannels :
       serverData[c] = <<>> =>
         /\ pageFiles[c] = <<>>
         /\ msgFile[c].st = "absent"
         /\ c \in DOMAIN checkpoint.channels =>
              checkpoint.channels[c] = DoneEntry(0)
         /\ (pc = "pinned" /\ channel_id = c) =>
              /\ ckptFile.st = "complete"
              /\ c \in DOMAIN ckptFile.data.channels
              /\ ckptFile.data.channels[c] = DoneEntry(0)
         /\ (/\ pc = "channel_top"
             /\ idx <= Len(ChannelIds)
             /\ ChannelIds[idx] = c
             /\ pc' # "idle") =>
              /\ pc' = "request"
              /\ <<"messages", c>> \in requested']_vars

\* C40 witness: the second run is at the message request of a channel
\* without messages that the checkpoint file has as done with
\* messages_exported = 0.
C40_Witness ==
  /\ runs = 2
  /\ pc = "request"
  /\ serverData[channel_id] = <<>>
  /\ <<"messages", channel_id>> \in requested
  /\ ckptFile.st = "complete"
  /\ channel_id \in DOMAIN ckptFile.data.channels
  /\ ckptFile.data.channels[channel_id] = DoneEntry(0)
  /\ msgFile[channel_id].st = "absent"
  /\ pageFiles[channel_id] = <<>>

\* C34: when a run has completed with no failed request, after any earlier
\* kill, every channel with pinned messages has its channel_<id>_pinned.json
\* and every channel with threads (of a type that has them) has its thread
\* exports.
C34_ResumedRunHasPinned ==
  (pc = "finished" /\ errors = 0) =>
    \A c \in ServerChannels :
      /\ HasPinned(c) => <<"pinned", c>> \in optFiles
      /\ (HasThreads(c) /\ SupportsThreads(contentType[c])) =>
           <<"threads", c>> \in optFiles

\* The highest index of a channel's page artifacts.
MaxPage(files) == CHOOSE p \in DOMAIN files : \A q \in DOMAIN files : q <= p

\* C36: when export_channel_history has just saved the checkpoint for the
\* channel, the checkpoint file's entry of the channel is in_progress, its
\* pages_fetched is the number of the channel's page artifacts on disk, its
\* messages_exported is the number of records in them, and its
\* last_message_id is the last record of the artifact of highest index.
C36_CheckpointMatchesPages ==
  (\/ pc = "sleep"
   \/ pc = "hist_return" /\ loop_exit = "short") =>
    /\ ckptFile.st = "complete"
    /\ ChannelStatus(ckptFile.data, channel_id) = "in_progress"
    /\ LET entry == ckptFile.data.channels[channel_id]
           files == pageFiles[channel_id]
       IN /\ entry.pages_fetched = Cardinality(DOMAIN files)
          /\ entry.messages_exported = Len(AllPages(files))
          /\ entry.last_message_id = Last(files[MaxPage(files)])

\* C39: in a call of export_channel_history for a channel of N records, the
\* number of requests issued so far is at most ceil(N / PageSize) + 1 and no
\* two of them have the same cursor; and a call that is at a request returns
\* (or the process is killed).
C39_LoopTerminates ==
  /\ []((InLoop \/ pc = "hist_return") =>
          /\ Len(cursors) <= Ceil(Len(serverData[channel_id]), PageSize) + 1
          /\ \A i, j \in 1..Len(cursors) : i # j => cursors[i] # cursors[j])
  /\ (pc = "request") ~> (pc \in {"hist_return", "idle"})

\* C39 witness: a call for a channel of two full pages has returned after
\* three requests, the last one answered with no record.
C39_Witness ==
  /\ pc = "hist_return"
  /\ Len(serverData[channel_id]) = 2 * PageSize
  /\ loop_exit = "empty"
  /\ Len(cursors) = 3
  /\ cursors[1] = None

\* C32: channel_<id>_pinned.json appears only in the step that answers the
\* channel's pinned-messages request, only when the request did not fail
\* and the channel has pinned messages; so the file exists only for
\* channels with pinned messages.
C32_PinnedOnlyIfAny ==
  [][\A c \in ServerChannels :
       /\ <<"pinned", c>> \in optFiles => HasPinned(c)
       /\ (<<"pinned", c>> \in optFiles' /\ <<"pinned", c>> \notin optFiles) =>
            /\ pc = "pinned"
            /\ channel_id = c
            /\ HasPinned(c)
            /\ <<"pinned", c>> \in requested'
            /\ <<"pinned", c>> \notin failed']_vars

\* C32 witness: a run has finished; the channel with pinned messages has its
\* file, and the pinned request of the channel without pinned messages was
\* answered and left no file.
C32_Witness ==
  /\ pc = "finished"
  /\ <<"pinned", ChannelIds[1]>> \in optFiles
  /\ ~HasPinned(ChannelIds[2])
  /\ <<"pinned", ChannelIds[2]>> \in requested \ failed
  /\ <<"pinned", ChannelIds[2]>> \notin optFiles

\* C33: every suspension the message loop of export_all_raw has taken lasted
\* the exporter's configured page_delay (argument, else environment
\* variable, else default).
C33_SleepsPageDelay ==
  \A i \in 1..Len(sleeps) : sleeps[i] = page_delay

\* C31: when the service does not accept the credential, nothing is ever on
\* disk (no page, artifact, checkpoint, channel listing, optional resource,
\* index or channel file), no run gets past its start and none reports
\* completion.
C31_BadCredentialNoWrite ==
  ~credential_ok =>
    /\ pc \in {"idle", "exited"}
    /\ xpc \in {"idle", "exited"}
    /\ \A c \in ServerChannels :
         /\ pageFiles[c] = <<>>
         /\ pageTmp[c] = <<>>
         /\ msgFile[c].st = "absent"
    /\ ckptFile.st = "absent"
    /\ ckptTmp.st = "absent"
    /\ channelsFile.st = "absent"
    /\ optFiles = {}
    /\ indexFile.st = "absent"
    /\ channelJson = <<>>
    /\ report = {}

\* C31 witness: with a credential the service rejects, a raw-mode process
\* and the translated-mode job have both started and exited.
C31_Witness ==
  /\ ~credential_ok
  /\ pc = "exited"
  /\ xpc = "exited"
  /\ runs >= 1

====
